---- MODULE Spec2Model ----
(***************************************************************************)
(* Dependency extraction and normalisation engine of saa-mappings:         *)
(* scripts/extract_pom_deps.py (build descriptors) and                     *)
(* scripts/extract_sbom_deps.py (CycloneDX SBOMs), and the mapping         *)
(* updaters scripts/update_azure_sdk_mappings.py and                       *)
(* scripts/update_azure_sdk_sbom_mappings.py that consume their records.   *)
(*                                                                         *)
(* Strings are TLA+ strings, read character by character with SubSeq, so   *)
(* that splitting, prefix tests and integer parsing are computed the way   *)
(* the Python code computes them.  Python's None is the value None below.  *)
(***************************************************************************)
EXTENDS Integers, Sequences, FiniteSets, TLC

VARIABLES
    \* compare_versions applied to a pair of operands
    v1, v2, ret, pc_ver,
    \* _collect_transitive_deps: its arguments, the recursion stack, and how
    \* often each ref passed the visited guard
    dependency_tree, root_ref, result, visited, stack, expansions, pc_walk,
    \* process_pom_directory: the input being processed and its results
    fallback_java_version, pom_files, pom_i, xml_sections, modules, all_deps,
    java_versions, pom_java_version, pom_record, pom_written, pom_status,
    \* process_sbom_directory: the input being processed and its results
    include_transitive, sbom_files, sbom_i, sbom_result, sbom_record, sbom_written,
    sbom_status,
    \* the records an earlier run over the same directory wrote
    sbom_previous,
    \* one call of a pure function of the extractors: the call, its return
    \* value, and whether it has returned
    call, call_ret, pc_call,
    \* main of a mapping updater: its arguments, the repository it works on,
    \* the mapping in memory and on disk, the versions to process, the ref to
    \* restore, the git checkouts issued so far, and the position of the run
    args, repo, mapping_data, mapping_file, missing_versions, original_ref,
    checkouts, upd_i, pc_upd

verVars  == <<v1, v2, ret, pc_ver>>
walkVars == <<dependency_tree, root_ref, result, visited, stack, expansions, pc_walk>>
pomVars  == <<fallback_java_version, pom_files, pom_i, xml_sections, modules, all_deps,
              java_versions, pom_java_version, pom_record, pom_written, pom_status>>
sbomVars == <<include_transitive, sbom_files, sbom_i, sbom_result, sbom_record, sbom_written,
              sbom_status, sbom_previous>>
callVars == <<call, call_ret, pc_call>>
updVars  == <<args, repo, mapping_data, mapping_file, missing_versions, original_ref,
              checkouts, upd_i, pc_upd>>
vars == <<verVars, walkVars, pomVars, sbomVars, callVars, updVars>>

\* Python's None; no input string of the model equals it.
None == "<None>"

\* A dict is a function on its keys; {} is the function with no key.
EmptyDict == <<>>

\* The parts of the program a run does not use stay as they are constructed.
VerIdle ==
    /\ v1 = "" /\ v2 = "" /\ ret = None /\ pc_ver = "idle"

WalkIdle ==
    /\ dependency_tree = <<>> /\ root_ref = None /\ result = {} /\ visited = {}
    /\ stack = <<>> /\ expansions = <<>> /\ pc_walk = "idle"

PomIdle ==
    /\ fallback_java_version = None /\ pom_files = <<>> /\ pom_i = 0
    /\ xml_sections = <<>> /\ modules = <<>> /\ all_deps = EmptyDict
    /\ java_versions = <<>> /\ pom_java_version = None /\ pom_record = EmptyDict
    /\ pom_written = EmptyDict /\ pom_status = "idle"

SbomIdle ==
    /\ include_transitive = FALSE /\ sbom_files = <<>> /\ sbom_i = 0 /\ sbom_result = EmptyDict
    /\ sbom_record = EmptyDict /\ sbom_written = EmptyDict /\ sbom_status = "idle"
    /\ sbom_previous = EmptyDict

CallIdle ==
    /\ call = EmptyDict /\ call_ret = None /\ pc_call = "idle"

UpdIdle ==
    /\ args = EmptyDict /\ repo = EmptyDict /\ mapping_data = EmptyDict
    /\ mapping_file = EmptyDict /\ missing_versions = <<>> /\ original_ref = None
    /\ checkouts = <<>> /\ upd_i = 0 /\ pc_upd = "idle"

-----------------------------------------------------------------------------
(* Strings                                                                 *)

Char(s, i) == SubSeq(s, i, i)

Max(a, b) == IF a >= b THEN a ELSE b

\* Index of the first character of s that is in the set C, or 0.
FirstIndex(s, C) ==
    LET I == {i \in 1..Len(s) : Char(s, i) \in C}
    IN  IF I = {} THEN 0 ELSE CHOOSE i \in I : \A j \in I : i <= j

\* str.startswith
StartsWith(s, p) == Len(s) >= Len(p) /\ SubSeq(s, 1, Len(p)) = p

\* str.split(sep) for a one-character separator: the list of fields.
RECURSIVE Split(_, _)
Split(s, sep) ==
    LET k == FirstIndex(s, {sep})
    IN  IF k = 0 THEN <<s>>
        ELSE <<SubSeq(s, 1, k - 1)>> \o Split(SubSeq(s, k + 1, Len(s)), sep)

\* str.strip() over the whitespace the inputs can hold.
Whitespace == {" ", "\n", "\t"}

RECURSIVE Strip(_)
Strip(s) ==
    IF s = "" THEN s
    ELSE IF Char(s, 1) \in Whitespace THEN Strip(SubSeq(s, 2, Len(s)))
    ELSE IF Char(s, Len(s)) \in Whitespace THEN Strip(SubSeq(s, 1, Len(s) - 1))
    ELSE s

DigitChars == {"0", "1", "2", "3", "4", "5", "6", "7", "8", "9"}

\* str.isdigit(): non-empty, every character a decimal digit.
IsDigit(s) == s # "" /\ \A i \in 1..Len(s) : Char(s, i) \in DigitChars

DigitVal(c) == FirstIndex("0123456789", {c}) - 1

\* int(s) of a string for which IsDigit holds.
RECURSIVE IntOf(_)
IntOf(s) ==
    IF s = "" THEN 0
    ELSE IntOf(SubSeq(s, 1, Len(s) - 1)) * 10 + DigitVal(Char(s, Len(s)))

\* The longest prefix of decimal digits: re.match(r'^\d+', s).group(), "" when
\* the match fails.
DigitPrefix(s) ==
    LET k == FirstIndex(s, {Char(s, i) : i \in 1..Len(s)} \ DigitChars)
    IN  IF k = 0 THEN s ELSE SubSeq(s, 1, k - 1)

-----------------------------------------------------------------------------
(* Version utilities                                                       *)

\* re.split(r'[-_]', v)[0]
CleanVersion(v) ==
    LET k == FirstIndex(v, {"-", "_"})
    IN  IF k = 0 THEN v ELSE SubSeq(v, 1, k - 1)

\* [int(x) for x in clean.split('.') if x.isdigit()]
VersionParts(clean) ==
    LET fields == Split(clean, ".")
        keep   == SelectSeq(fields, IsDigit)
    IN  [i \in 1..Len(keep) |-> IntOf(keep[i])]

\* parts.extend([0] * (max_len - len(parts)))
PadParts(parts, max_len) ==
    [i \in 1..max_len |-> IF i <= Len(parts) THEN parts[i] ELSE 0]

\* A plausible slip: on a tie the second operand is returned.
compare_versions_tie_second(a, b) ==
    LET p1 == VersionParts(CleanVersion(a))
        p2 == VersionParts(CleanVersion(b))
        n  == Max(Len(p1), Len(p2))
        q1 == PadParts(p1, n)
        q2 == PadParts(p2, n)
        D  == {i \in 1..n : q1[i] # q2[i]}
    IN  IF D = {} THEN b
        ELSE LET k == CHOOSE i \in D : \A j \in D : i <= j
             IN  IF q1[k] > q2[k] THEN a ELSE b

\* compare_versions(v1, v2): the operand with the first strictly greater
\* numeric part, the first operand on a tie.  The except branch (max of the two
\* strings) is reached only when re.split or int() raises, which no ASCII string
\* operand causes; every operand of the model is an ASCII string.
compare_versions(a, b) ==
    LET v1_clean == CleanVersion(a)
        v2_clean == CleanVersion(b)
        v1_parts == VersionParts(v1_clean)
        v2_parts == VersionParts(v2_clean)
        max_len  == Max(Len(v1_parts), Len(v2_parts))
        p1 == PadParts(v1_parts, max_len)
        p2 == PadParts(v2_parts, max_len)
        D  == {i \in 1..max_len : p1[i] # p2[i]}
    IN  IF D = {} THEN a
        ELSE LET k == CHOOSE i \in D : \A j \in D : i <= j
             IN  IF p1[k] > p2[k] THEN a ELSE b

\* A plausible slip: two segments are enough for the ".x" form.
version_to_x_from_two_segments(version_str) ==
    LET parts == Split(version_str, ".")
    IN  IF Len(parts) >= 2 THEN parts[1] \o "." \o parts[2] \o ".x"
        ELSE version_str

\* version_to_x of extract_pom_deps.py
version_to_x(version_str) ==
    LET parts == Split(version_str, ".")
    IN  IF Len(parts) >= 3 THEN parts[1] \o "." \o parts[2] \o ".x"
        ELSE version_str

\* version_to_x of extract_sbom_deps.py: an empty token is returned as it is.
sbom_version_to_x(version_str) ==
    IF version_str = "" \/ version_str = None THEN version_str
    ELSE version_to_x(version_str)

\* int(s) of an arbitrary string: surrounding whitespace, one sign and single
\* underscores between digits are accepted; anything else raises ValueError.
Unsigned(s) ==
    LET t == Strip(s)
    IN  IF t # "" /\ Char(t, 1) \in {"+", "-"} THEN SubSeq(t, 2, Len(t)) ELSE t

RECURSIVE DropUnderscores(_)
DropUnderscores(s) ==
    IF s = "" THEN s
    ELSE IF Char(s, 1) = "_" THEN DropUnderscores(SubSeq(s, 2, Len(s)))
    ELSE Char(s, 1) \o DropUnderscores(SubSeq(s, 2, Len(s)))

PyIntOK(s) ==
    LET u == Unsigned(s)
    IN  /\ IsDigit(DropUnderscores(u))
        /\ Char(u, 1) # "_" /\ Char(u, Len(u)) # "_"
        /\ \A i \in 1..(Len(u) - 1) : ~(Char(u, i) = "_" /\ Char(u, i + 1) = "_")

PyInt(s) ==
    LET t == Strip(s)
        n == IntOf(DropUnderscores(Unsigned(s)))
    IN  IF Char(t, 1) = "-" THEN 0 - n ELSE n

\* normalize_java_version: "1.x" gives x, a leading integer gives itself,
\* anything else 0 (int() of the field after "1." raising gives 0 as well).
normalize_java_version(version_str) ==
    IF version_str = None \/ version_str = "" THEN 0
    ELSE LET s == Strip(version_str)
         IN  IF StartsWith(s, "1.")
             THEN LET f == Split(s, ".")[2]
                  IN  IF PyIntOK(f) THEN PyInt(f) ELSE 0
             ELSE LET d == DigitPrefix(s)
                  IN  IF d = "" THEN 0 ELSE IntOf(d)

-----------------------------------------------------------------------------
(* compare_versions applied to operands drawn from a bounded set           *)

MaxVerLen == 3

VerAlphabet == {"1", "2", ".", "-"}

RECURSIVE StringsUpTo(_)
StringsUpTo(n) ==
    IF n = 0 THEN {""}
    ELSE LET S == StringsUpTo(n - 1)
         IN  S \cup {s \o c : s \in S, c \in VerAlphabet}

SampleVersions ==
    {"2.1.0", "2.0.9", "1.2", "1.2.0", "2.7.0", "3.0.1", "1.10", "1.9",
     "1.2-SNAPSHOT", "1.2.0_1", "1.x.5", "10", "9", "2.7.0.RELEASE", "1.02"}

Versions == StringsUpTo(MaxVerLen) \cup SampleVersions

InitVer ==
    /\ v1 \in Versions /\ v2 \in Versions
    /\ ret = None /\ pc_ver = "call"
    /\ WalkIdle
    /\ PomIdle
    /\ SbomIdle
    /\ CallIdle
    /\ UpdIdle

CompareVersions ==
    /\ pc_ver = "call"
    /\ ret' = compare_versions(v1, v2)
    /\ pc_ver' = "return"
    /\ UNCHANGED <<v1, v2>>
    /\ UNCHANGED <<walkVars, pomVars, sbomVars, callVars, updVars>>

-----------------------------------------------------------------------------
(* _collect_transitive_deps, one step of the recursion per action          *)

Refs == {"A", "B", "C"}

MaxChildren == 2
MaxDepth == 5

RECURSIVE SeqsUpTo(_, _)
SeqsUpTo(S, n) ==
    IF n = 0 THEN {<<>>}
    ELSE LET T == SeqsUpTo(S, n - 1)
         IN  T \cup {Append(t, x) : t \in T, x \in S}

Range(f) == {f[i] : i \in DOMAIN f}

\* The adjacency maps: any subset of the refs has an entry, each entry a list
\* of child refs (repetitions and self-references allowed).
AdjacencyMaps ==
    UNION {[D -> SeqsUpTo(Refs, MaxChildren)] : D \in SUBSET Refs}

\* transitive_refs = set(); _collect_transitive_deps(ref, dependency_tree, transitive_refs)
\* Every adjacency map over Refs is drawn, so up to renaming the root is "A".
Roots == {"A"}

InitWalk ==
    /\ dependency_tree \in AdjacencyMaps
    /\ root_ref \in Roots
    /\ result = {}
    /\ visited = {}
    /\ stack = <<[ref |-> root_ref, i |-> 0]>>
    /\ expansions = [r \in Refs |-> 0]
    /\ pc_walk = "run"
    /\ VerIdle
    /\ PomIdle
    /\ SbomIdle
    /\ CallIdle
    /\ UpdIdle

Top == stack[Len(stack)]
Pop == SubSeq(stack, 1, Len(stack) - 1)
Returned(stk) == IF stk = <<>> THEN "done" ELSE "run"

\* A plausible slip: no visited guard, every call expands its ref.
WalkCall_no_guard ==
    /\ pc_walk = "run" /\ stack # <<>> /\ Top.i = 0
    /\ visited' = visited \cup {Top.ref}
    /\ expansions' = [expansions EXCEPT ![Top.ref] = @ + 1]
    /\ IF Top.ref \in DOMAIN dependency_tree
       THEN /\ stack' = [stack EXCEPT ![Len(stack)].i = 1]
            /\ pc_walk' = pc_walk
       ELSE /\ stack' = Pop
            /\ pc_walk' = Returned(Pop)
    /\ UNCHANGED <<dependency_tree, root_ref, result>>
    /\ UNCHANGED <<verVars, pomVars, sbomVars, callVars, updVars>>

\* Entry of a call: return at once for a visited ref; otherwise mark it visited
\* and start on its children, if it has an adjacency entry.
WalkCall ==
    /\ pc_walk = "run" /\ stack # <<>> /\ Top.i = 0
    /\ IF Top.ref \in visited
       THEN /\ stack' = Pop
            /\ pc_walk' = Returned(Pop)
            /\ UNCHANGED <<visited, expansions>>
       ELSE /\ visited' = visited \cup {Top.ref}
            /\ expansions' = [expansions EXCEPT ![Top.ref] = @ + 1]
            /\ IF Top.ref \in DOMAIN dependency_tree
               THEN /\ stack' = [stack EXCEPT ![Len(stack)].i = 1]
                    /\ pc_walk' = pc_walk
               ELSE /\ stack' = Pop
                    /\ pc_walk' = Returned(Pop)
    /\ UNCHANGED <<dependency_tree, root_ref, result>>
    /\ UNCHANGED <<verVars, pomVars, sbomVars, callVars, updVars>>

\* A plausible slip: the child is recorded but the recursive call is missing.
WalkChild_no_recursion ==
    /\ pc_walk = "run" /\ stack # <<>> /\ Top.i >= 1
    /\ Top.i <= Len(dependency_tree[Top.ref])
    /\ result' = result \cup {dependency_tree[Top.ref][Top.i]}
    /\ stack' = [stack EXCEPT ![Len(stack)].i = @ + 1]
    /\ UNCHANGED <<dependency_tree, root_ref, visited, expansions, pc_walk>>
    /\ UNCHANGED <<verVars, pomVars, sbomVars, callVars, updVars>>

\* One iteration of the loop over the children: result.add(child_ref), then the
\* recursive call on the child.
WalkChild ==
    /\ pc_walk = "run" /\ stack # <<>> /\ Top.i >= 1
    /\ Top.i <= Len(dependency_tree[Top.ref])
    /\ Len(stack) < MaxDepth
    /\ LET child_ref == dependency_tree[Top.ref][Top.i]
       IN  /\ result' = result \cup {child_ref}
           /\ stack' = Append([stack EXCEPT ![Len(stack)].i = @ + 1],
                              [ref |-> child_ref, i |-> 0])
    /\ UNCHANGED <<dependency_tree, root_ref, visited, expansions, pc_walk>>
    /\ UNCHANGED <<verVars, pomVars, sbomVars, callVars, updVars>>

\* The loop over the children is exhausted: the call returns.
WalkReturn ==
    /\ pc_walk = "run" /\ stack # <<>> /\ Top.i >= 1
    /\ Top.i > Len(dependency_tree[Top.ref])
    /\ stack' = Pop
    /\ pc_walk' = Returned(Pop)
    /\ UNCHANGED <<dependency_tree, root_ref, result, visited, expansions>>
    /\ UNCHANGED <<verVars, pomVars, sbomVars, callVars, updVars>>

-----------------------------------------------------------------------------
(* Dictionaries and the dependency catalog                                 *)


Put(d, k, v) == [x \in (DOMAIN d) \cup {k} |-> IF x = k THEN v ELSE d[x]]

\* Python truthiness of an optional string.
Truthy(x) == x # None /\ x # ""

EndsWith(s, p) == Len(s) >= Len(p) /\ SubSeq(s, Len(s) - Len(p) + 1, Len(s)) = p

\* dep_mappings of extract_pom_deps.py, in the order of the dict literal.
pom_dep_mappings == <<
    [name |-> "spring-boot", group |-> "org.springframework.boot", artifact |-> None],
    [name |-> "spring-data-commons", group |-> "org.springframework.data", artifact |-> "spring-data-commons"],
    [name |-> "spring-data-jpa", group |-> "org.springframework.data", artifact |-> "spring-data-jpa"],
    [name |-> "spring-data-mongodb", group |-> "org.springframework.data", artifact |-> "spring-data-mongodb"],
    [name |-> "spring-data-redis", group |-> "org.springframework.data", artifact |-> "spring-data-redis"],
    [name |-> "spring-data-relational", group |-> "org.springframework.data", artifact |-> "spring-data-relational"],
    [name |-> "spring-framework", group |-> "org.springframework",
     artifact |-> "^spring-core$|^spring-context$|^spring-beans$|^spring-web$"],
    [name |-> "spring-security", group |-> "org.springframework.security", artifact |-> "^spring-security-.*"],
    [name |-> "spring-integration", group |-> "org.springframework.integration", artifact |-> "^spring-integration-.*"],
    [name |-> "spring-kafka", group |-> "org.springframework.kafka", artifact |-> "spring-kafka"],
    [name |-> "spring-retry", group |-> "org.springframework.retry", artifact |-> "spring-retry"],
    [name |-> "spring-cloud-azure", group |-> "com.azure.spring", artifact |-> None],
    [name |-> "spring-cloud-commons", group |-> "org.springframework.cloud", artifact |-> "spring-cloud-commons"],
    [name |-> "spring-cloud-function", group |-> "org.springframework.cloud", artifact |-> "^spring-cloud-function-.*"],
    [name |-> "spring-cloud-stream", group |-> "org.springframework.cloud", artifact |-> "spring-cloud-stream"],
    [name |-> "spring-cloud-bus", group |-> "org.springframework.cloud", artifact |-> "spring-cloud-bus"],
    [name |-> "spring-cloud-sleuth", group |-> "org.springframework.cloud", artifact |-> "spring-cloud-sleuth"],
    [name |-> "azure-sdk-for-java", group |-> "com.azure", artifact |-> "azure-core"],
    [name |-> "micrometer", group |-> "io.micrometer", artifact |-> "micrometer-core"],
    [name |-> "reactor", group |-> "io.projectreactor", artifact |-> "reactor-core"],
    [name |-> "reactor-netty", group |-> "io.projectreactor.netty", artifact |-> "^reactor-netty.*"],
    [name |-> "jedis", group |-> "redis.clients", artifact |-> "jedis"] >>

\* A plausible slip: the added entry written as a pattern, which also accepts
\* the artifact of the entry before it.
sbom_dep_mappings_overlapping ==
    SubSeq(pom_dep_mappings, 1, 18)
    \o << [name |-> "azure-core-http-netty", group |-> "com.azure", artifact |-> "^azure-core.*"] >>
    \o SubSeq(pom_dep_mappings, 19, 22)

\* dep_mappings of extract_sbom_deps.py: the same table with one more entry,
\* azure-core-http-netty, after azure-sdk-for-java.
sbom_dep_mappings ==
    SubSeq(pom_dep_mappings, 1, 18)
    \o << [name |-> "azure-core-http-netty", group |-> "com.azure", artifact |-> "azure-core-http-netty"] >>
    \o SubSeq(pom_dep_mappings, 19, 22)

\* re.match of one alternative "^literal$", "^literal.*" or "^literal" of the
\* catalog's patterns: anchored at the start; "$" also matches before one
\* final newline; without "$" the rest of the string is free.
AltMatches(alt, s) ==
    LET body == SubSeq(alt, 2, Len(alt))
    IN  IF EndsWith(body, "$")
        THEN LET lit == SubSeq(body, 1, Len(body) - 1)
             IN  s = lit \/ s = lit \o "\n"
        ELSE IF EndsWith(body, ".*")
        THEN StartsWith(s, SubSeq(body, 1, Len(body) - 2))
        ELSE StartsWith(s, body)

\* re.match(pattern, s) for the catalog's patterns (alternatives joined by "|").
ReMatch(pattern, s) ==
    LET alts == Split(pattern, "|")
    IN  \E i \in 1..Len(alts) : AltMatches(alts[i], s)

\* A plausible slip: a pattern selector compared as if it were a plain string.
EntryMatches_pattern_as_literal(entry, group, artifact) ==
    /\ group = entry.group
    /\ IF entry.artifact = None THEN TRUE ELSE artifact = entry.artifact

\* The test made on one catalog entry.
EntryMatches(entry, group, artifact) ==
    /\ group = entry.group
    /\ IF entry.artifact = None THEN TRUE
       ELSE IF StartsWith(entry.artifact, "^") THEN ReMatch(entry.artifact, artifact)
       ELSE artifact = entry.artifact

\* The loop over dep_mappings.items(): the name of the first matching entry, or
\* None.
Classify(mappings, group, artifact) ==
    LET I == {i \in 1..Len(mappings) : EntryMatches(mappings[i], group, artifact)}
    IN  IF I = {} THEN None
        ELSE mappings[CHOOSE i \in I : \A j \in I : i <= j].name

-----------------------------------------------------------------------------
(* Build-descriptor extractor (extract_pom_deps.py)                        *)

\* infer_java_version_from_deps of extract_pom_deps.py
pom_infer_java_version_from_deps(deps) ==
    LET Has(f) == f \in DOMAIN deps
        boot == IF ~Has("spring-boot") THEN None
                ELSE IF StartsWith(deps["spring-boot"], "3.") THEN "17"
                ELSE IF StartsWith(deps["spring-boot"], "2.7") THEN "11"
                ELSE IF StartsWith(deps["spring-boot"], "2.") THEN "8"
                ELSE None
        framework == IF ~Has("spring-framework") THEN None
                     ELSE IF StartsWith(deps["spring-framework"], "6.") THEN "17"
                     ELSE IF StartsWith(deps["spring-framework"], "5.3") THEN "8"
                     ELSE IF StartsWith(deps["spring-framework"], "5.") THEN "8"
                     ELSE None
        reactor == IF ~Has("reactor") THEN None
                   ELSE IF StartsWith(deps["reactor"], "3.5") \/ StartsWith(deps["reactor"], "3.6")
                        THEN "17"
                   ELSE IF StartsWith(deps["reactor"], "3.") THEN "8"
                   ELSE None
    IN  IF DOMAIN deps = {} THEN None
        ELSE IF boot # None THEN boot
        ELSE IF framework # None THEN framework
        ELSE reactor

\* The property names tried, in order (java_props).
java_props == <<"java.version", "maven.compiler.target", "maven.compiler.source",
                "maven.compiler.release", "project.build.sourceLevel">>

\* Strategy 1: the first property of java_props that is present with text.
\* properties is the dict of the children of <properties>, empty also when the
\* section has no such element.
PropertyVersion(properties) ==
    LET I == {i \in 1..Len(java_props) :
                   /\ java_props[i] \in DOMAIN properties
                   /\ Truthy(properties[java_props[i]])}
    IN  IF I = {} THEN None
        ELSE Strip(properties[java_props[CHOOSE i \in I : \A j \in I : i <= j]])

compiler_tags == <<"release", "target", "source">>

\* extract_java_version_from_plugin: the first maven-compiler-plugin entry with
\* a configuration holding release, target or source (in that order) with text.
\* plugins is the list of the build/plugins/plugin elements (empty when there is
\* none), configuration the dict of the children of <configuration> (empty also
\* when the plugin has none).
extract_java_version_from_plugin(plugins) ==
    LET Hit(i, t) ==
            /\ plugins[i].artifactId = "maven-compiler-plugin"
            /\ compiler_tags[t] \in DOMAIN plugins[i].configuration
            /\ Truthy(plugins[i].configuration[compiler_tags[t]])
        H == {<<i, t>> \in (1..Len(plugins)) \X (1..Len(compiler_tags)) : Hit(i, t)}
    IN  IF H = {} THEN None
        ELSE LET h == CHOOSE x \in H : \A y \in H :
                          x[1] < y[1] \/ (x[1] = y[1] /\ x[2] <= y[2])
             IN  Strip(plugins[h[1]].configuration[compiler_tags[h[2]]])

\* Whether the lookups of the pass with the given use_ns find the elements of
\* the segment: a segment without namespace is found by both passes (the prefix
\* is empty in both), a namespaced one only by the pass that uses the prefix.
FoundInPass(seg, use_ns) == seg.namespaced => use_ns

\* One pass of the discovery loop: properties, then the compiler plugin.
DiscoverPass(seg, use_ns) ==
    IF ~FoundInPass(seg, use_ns) THEN None
    ELSE LET p == PropertyVersion(seg.properties)
         IN  IF p # None THEN p ELSE extract_java_version_from_plugin(seg.plugins)

\* for use_ns in [False, True]: stop at the first pass that yields a value.
DiscoverJavaVersion(seg) ==
    LET first == DiscoverPass(seg, FALSE)
    IN  IF first # None THEN first ELSE DiscoverPass(seg, TRUE)

\* A plausible slip: the scope of a dependency is not looked at.
MatchDependency_any_scope(deps, dep) ==
    IF dep.groupId = None \/ dep.version = None THEN deps
    ELSE LET dep_name == Classify(pom_dep_mappings, Strip(dep.groupId),
                                  IF dep.artifactId # None THEN Strip(dep.artifactId) ELSE "")
         IN  IF dep_name = None THEN deps
             ELSE Put(deps, dep_name, Strip(dep.version))

\* The body of the loop over the dependency elements: skip without groupId or
\* version, skip a scope other than compile, classify, and on a match store the
\* version under the family name.
MatchDependency(deps, dep) ==
    IF dep.groupId = None \/ dep.version = None THEN deps
    ELSE LET scope == IF dep.scope # None THEN dep.scope ELSE "compile"
         IN  IF scope # "compile" THEN deps
             ELSE LET group_id    == Strip(dep.groupId)
                      artifact_id == IF dep.artifactId # None THEN Strip(dep.artifactId) ELSE ""
                      version_str == Strip(dep.version)
                      dep_name    == Classify(pom_dep_mappings, group_id, artifact_id)
                  IN  IF dep_name = None THEN deps
                      ELSE Put(deps, dep_name, version_str)

RECURSIVE ScanDependencies(_, _)
ScanDependencies(dependencies, deps) ==
    IF dependencies = <<>> THEN deps
    ELSE ScanDependencies(Tail(dependencies), MatchDependency(deps, Head(dependencies)))

\* for use_ns in [False, True]: every pass that finds the dependency elements
\* scans them all, into the same dict.
SegmentDeps(seg) ==
    LET pass1 == IF FoundInPass(seg, FALSE)
                 THEN ScanDependencies(seg.dependencies, EmptyDict) ELSE EmptyDict
    IN  IF FoundInPass(seg, TRUE) THEN ScanDependencies(seg.dependencies, pass1) ELSE pass1

\* "if java_version is None and deps": the inferred level, when there is one.
OrInferred(java_version, deps) ==
    IF java_version = None /\ DOMAIN deps # {} /\ Truthy(pom_infer_java_version_from_deps(deps))
    THEN pom_infer_java_version_from_deps(deps) ELSE java_version

\* "if java_version is None and fallback_java_version"
OrFallback(java_version, fallback) ==
    IF java_version = None /\ Truthy(fallback) THEN fallback ELSE java_version

\* extract_deps_from_xml: (java_version, deps) of one project section; a
\* section that does not parse gives (None, {}).
extract_deps_from_xml(seg, fallback) ==
    IF ~seg.wellformed THEN [java_version |-> None, deps |-> EmptyDict]
    ELSE [java_version |-> OrFallback(OrInferred(DiscoverJavaVersion(seg), SegmentDeps(seg)), fallback),
          deps |-> SegmentDeps(seg)]

\* Merge of one module's deps into all_deps, the higher version kept.
MergeModuleDeps(all, module_deps) ==
    [k \in (DOMAIN all) \cup (DOMAIN module_deps) |->
        IF k \in DOMAIN all /\ k \in DOMAIN module_deps
        THEN compare_versions(all[k], module_deps[k])
        ELSE IF k \in DOMAIN all THEN all[k] ELSE module_deps[k]]

RECURSIVE MergeAll(_, _)
MergeAll(mods, all) ==
    IF mods = <<>> THEN all
    ELSE MergeAll(Tail(mods), MergeModuleDeps(all, Head(mods).deps))

\* java_versions: the tokens of the modules that yielded one, in module order.
CollectJavaVersions(mods) ==
    LET tokens == [i \in 1..Len(mods) |-> mods[i].java_version]
    IN  SelectSeq(tokens, Truthy)

\* The loop that picks the highest token: highest_normalized starts at 0 and a
\* token replaces the pick only when its normalised value is strictly greater.
RECURSIVE PickHighest(_, _, _)
PickHighest(tokens, highest_version, highest_normalized) ==
    IF tokens = <<>> THEN highest_version
    ELSE LET normalized == normalize_java_version(Head(tokens))
         IN  IF normalized > highest_normalized
             THEN PickHighest(Tail(tokens), Head(tokens), normalized)
             ELSE PickHighest(Tail(tokens), highest_version, highest_normalized)

\* The merged runtime version: the picked token, else inference over the
\* merged dependencies, else the fallback.
MergedJavaVersion(tokens, all, fallback) ==
    OrFallback(OrInferred(IF tokens # <<>> THEN PickHighest(tokens, None, 0) ELSE None, all),
               fallback)

\* The merge of the sections' results.
MergeModules(mods, all, tokens, fallback) ==
    [java_version |-> MergedJavaVersion(tokens, all, fallback),
     final_deps |-> [k \in DOMAIN all |-> version_to_x(all[k])],
     modules |-> mods, all_deps |-> all, java_versions |-> tokens]

ExtractModules(sections, fallback) ==
    [i \in 1..Len(sections) |-> extract_deps_from_xml(sections[i], fallback)]

\* extract_compile_deps_multi_module: no section gives (None, {}); otherwise
\* the merge of the sections' results.
extract_compile_deps_multi_module(sections, fallback) ==
    IF sections = <<>>
    THEN [java_version |-> None, final_deps |-> EmptyDict, modules |-> <<>>,
          all_deps |-> EmptyDict, java_versions |-> <<>>]
    ELSE MergeModules(ExtractModules(sections, fallback),
                      MergeAll(ExtractModules(sections, fallback), EmptyDict),
                      CollectJavaVersions(ExtractModules(sections, fallback)),
                      fallback)

-----------------------------------------------------------------------------
(* process_pom_directory over bounded inputs                               *)

\* A file holds at most MaxSegments project sections with at most MaxDeps
\* dependency elements in all.
MaxSegments == 2
MaxDeps == 2

DepPool == {
    [groupId |-> "org.springframework.boot", artifactId |-> "spring-boot",
     version |-> "2.7.0", scope |-> None],
    [groupId |-> "org.springframework.boot", artifactId |-> "spring-boot-starter-web",
     version |-> "3.0.1", scope |-> "compile"],
    [groupId |-> "org.springframework", artifactId |-> "spring-core",
     version |-> "5.3.21", scope |-> "test"],
    [groupId |-> "org.springframework.boot", artifactId |-> None,
     version |-> "2.6", scope |-> None],
    [groupId |-> "org.springframework.boot", artifactId |-> "spring-boot-actuator",
     version |-> None, scope |-> None],
    [groupId |-> None, artifactId |-> "spring-core",
     version |-> "5.3.21", scope |-> None] }

CompilerPlugin(tag, text) ==
    << [artifactId |-> "maven-compiler-plugin", configuration |-> Put(EmptyDict, tag, text)] >>

\* What a section holds besides its dependencies.
SectionHeads == {
    [wellformed |-> TRUE, namespaced |-> FALSE, properties |-> EmptyDict, plugins |-> <<>>],
    [wellformed |-> TRUE, namespaced |-> TRUE, properties |-> EmptyDict, plugins |-> <<>>],
    [wellformed |-> TRUE, namespaced |-> TRUE,
     properties |-> Put(EmptyDict, "java.version", "17"),
     plugins |-> CompilerPlugin("release", "21")],
    [wellformed |-> TRUE, namespaced |-> FALSE,
     properties |-> Put(Put(EmptyDict, "maven.compiler.source", "1.7"), "maven.compiler.target", "1.8"),
     plugins |-> <<>>],
    [wellformed |-> TRUE, namespaced |-> FALSE,
     properties |-> Put(EmptyDict, "java.version", "${jdk.level}"), plugins |-> <<>>],
    [wellformed |-> TRUE, namespaced |-> FALSE, properties |-> EmptyDict,
     plugins |-> << [artifactId |-> "maven-surefire-plugin",
                     configuration |-> Put(EmptyDict, "release", "8")],
                    [artifactId |-> "maven-compiler-plugin",
                     configuration |-> Put(Put(EmptyDict, "source", "9"), "release", " 11 ")] >>],
    [wellformed |-> TRUE, namespaced |-> FALSE,
     properties |-> Put(EmptyDict, "java.version", " "),
     plugins |-> CompilerPlugin("target", "11")],
    [wellformed |-> FALSE, namespaced |-> FALSE, properties |-> EmptyDict, plugins |-> <<>>] }

Section(head, dependencies) ==
    [wellformed |-> head.wellformed, namespaced |-> head.namespaced,
     properties |-> head.properties, plugins |-> head.plugins,
     dependencies |-> dependencies]

\* The sections with a head of H and at most d dependency elements; a section
\* that does not parse has no content to speak of.
Sections(H, d) ==
    {Section(h, l) : h \in {x \in H : x.wellformed}, l \in SeqsUpTo(DepPool, d)}
    \cup {Section(h, <<>>) : h \in {x \in H : ~x.wellformed}}

\* The lists of at most n sections with at most d dependency elements in all.
RECURSIVE SectionLists(_, _, _)
SectionLists(H, n, d) ==
    IF n = 0 THEN {<<>>}
    ELSE {<<>>} \cup
         UNION {{<<sec>> \o rest : rest \in SectionLists(H, n - 1, d - Len(sec.dependencies))} :
                sec \in Sections(H, d)}

\* The heads that configure nothing.
BareHeads == {h \in SectionHeads : h.wellformed /\ h.properties = EmptyDict /\ h.plugins = <<>>}

\* The files: sections that configure nothing and hold the dependencies,
\* sections of every kind without dependencies, and single sections of every
\* kind with dependencies.
PomFiles ==
    {[tag |-> "1.2.3", sections |-> l] :
        l \in SectionLists(BareHeads, MaxSegments, MaxDeps)
              \cup SectionLists(SectionHeads, MaxSegments, 0)
              \cup SectionLists(SectionHeads, 1, MaxDeps)}

\* The runs: one file, or a file of one bare section next to a file in which
\* no section is found.
PomBatches ==
    {<<f>> : f \in PomFiles}
    \cup UNION {{<<[tag |-> "1.0", sections |-> <<>>], g>>, <<g, [tag |-> "1.0", sections |-> <<>>]>>} :
                g \in {[tag |-> "2.0.0", sections |-> <<Section(h, <<>>)>>] : h \in SectionHeads}}

InitPom ==
    /\ fallback_java_version \in {None, "11"}
    /\ pom_files \in PomBatches
    /\ pom_i = 0
    /\ xml_sections = <<>> /\ modules = <<>> /\ all_deps = EmptyDict
    /\ java_versions = <<>> /\ pom_java_version = None /\ pom_record = EmptyDict
    /\ pom_written = EmptyDict
    /\ pom_status = "run"
    /\ VerIdle
    /\ WalkIdle
    /\ SbomIdle
    /\ CallIdle
    /\ UpdIdle

\* The record process_pom_directory builds from the result of the extraction.
PomOutput(pom_file, r) ==
    [version |-> version_to_x(pom_file.tag),
     javaVersion |-> IF Truthy(r.java_version) THEN r.java_version ELSE "unknown",
     deps |-> r.final_deps]

\* The write of the record to <tag>.json; the intermediate values of the
\* extraction are kept as well.
WritePomRecord(pom_file, r) ==
    /\ xml_sections' = pom_file.sections
    /\ modules' = r.modules
    /\ all_deps' = r.all_deps
    /\ java_versions' = r.java_versions
    /\ pom_java_version' = r.java_version
    /\ pom_record' = PomOutput(pom_file, r)
    /\ pom_written' = Put(pom_written, pom_file.tag \o ".json", PomOutput(pom_file, r))

\* One iteration of the loop of process_pom_directory: extraction of the file
\* and the write of its record.
ProcessPomFile ==
    /\ pom_status = "run" /\ pom_i < Len(pom_files)
    /\ WritePomRecord(pom_files[pom_i + 1],
                      extract_compile_deps_multi_module(pom_files[pom_i + 1].sections,
                                                        fallback_java_version))
    /\ pom_i' = pom_i + 1
    /\ UNCHANGED <<fallback_java_version, pom_files, pom_status>>
    /\ UNCHANGED <<verVars, walkVars, sbomVars, callVars, updVars>>

\* The loop is exhausted: return 0.
PomReturn ==
    /\ pom_status = "run" /\ pom_i = Len(pom_files)
    /\ pom_status' = "done"
    /\ UNCHANGED <<fallback_java_version, pom_files, pom_i, xml_sections, modules, all_deps,
                   java_versions, pom_java_version, pom_record, pom_written>>
    /\ UNCHANGED <<verVars, walkVars, sbomVars, callVars, updVars>>

-----------------------------------------------------------------------------
(* SBOM extractor (extract_sbom_deps.py)                                   *)

\* The version heuristics of infer_java_version_from_deps of
\* extract_sbom_deps.py, in their order; None when none of them fires.
SbomHeuristic(deps) ==
    LET Has(f) == f \in DOMAIN deps
        boot == IF ~Has("spring-boot") THEN None
                ELSE IF StartsWith(deps["spring-boot"], "3.2") \/ StartsWith(deps["spring-boot"], "3.3")
                     THEN "17"
                ELSE IF StartsWith(deps["spring-boot"], "3.") THEN "17"
                ELSE IF StartsWith(deps["spring-boot"], "2.7") THEN "11"
                ELSE IF StartsWith(deps["spring-boot"], "2.5") \/ StartsWith(deps["spring-boot"], "2.6")
                     THEN "11"
                ELSE IF StartsWith(deps["spring-boot"], "2.") THEN "8"
                ELSE None
        framework == IF ~Has("spring-framework") THEN None
                     ELSE IF StartsWith(deps["spring-framework"], "6.1") THEN "17"
                     ELSE IF StartsWith(deps["spring-framework"], "6.") THEN "17"
                     ELSE IF StartsWith(deps["spring-framework"], "5.3") THEN "11"
                     ELSE IF StartsWith(deps["spring-framework"], "5.") THEN "8"
                     ELSE None
        azure_version == IF Has("azure-sdk-for-java") THEN deps["azure-sdk-for-java"]
                         ELSE IF Has("azure-core-http-netty") THEN deps["azure-core-http-netty"]
                         ELSE ""
        parts == Split(azure_version, ".")
        azure == IF /\ azure_version # ""
                    /\ IsDigit(parts[1]) /\ IntOf(parts[1]) >= 1
                    /\ Len(parts) > 1 /\ IsDigit(parts[2]) /\ IntOf(parts[2]) >= 40
                 THEN "11" ELSE None
        reactor == IF ~Has("reactor") THEN None
                   ELSE IF StartsWith(deps["reactor"], "3.6") THEN "17"
                   ELSE IF StartsWith(deps["reactor"], "3.5") THEN "11"
                   ELSE IF StartsWith(deps["reactor"], "3.") THEN "8"
                   ELSE None
    IN  IF boot # None THEN boot
        ELSE IF framework # None THEN framework
        ELSE IF azure # None THEN azure
        ELSE IF reactor # None THEN reactor
        ELSE None

\* A plausible slip: no default level, as in the build-descriptor variant.
sbom_infer_no_default(deps) ==
    IF DOMAIN deps = {} THEN None ELSE SbomHeuristic(deps)

\* infer_java_version_from_deps of extract_sbom_deps.py
sbom_infer_java_version_from_deps(deps) ==
    IF DOMAIN deps = {} THEN None
    ELSE IF SbomHeuristic(deps) # None THEN SbomHeuristic(deps)
    ELSE "11"

\* The property names recognised in metadata.properties.
sbom_java_props == {"java.version", "maven.compiler.target", "maven.compiler.source",
                    "maven.compiler.release", "java.runtime.version", "java.target.version"}

\* str.lower() over the letters.
Lower(s) ==
    LET up == "ABCDEFGHIJKLMNOPQRSTUVWXYZ"
        lo == "abcdefghijklmnopqrstuvwxyz"
        L(c) == LET k == FirstIndex(up, {c}) IN IF k = 0 THEN c ELSE Char(lo, k)
        RECURSIVE Go(_)
        Go(t) == IF t = "" THEN "" ELSE L(Char(t, 1)) \o Go(SubSeq(t, 2, Len(t)))
    IN  Go(s)

\* sub in s
Contains(s, sub) ==
    \E i \in 1..(Len(s) - Len(sub) + 1) : SubSeq(s, i, i + Len(sub) - 1) = sub

\* A property entry that has both a name and a value.
Complete(prop) == prop.name # None /\ prop.value # None

\* The loop over metadata.properties (both variants): the value of the first
\* entry with a recognised name and a value that is neither empty nor "null".
MetadataVersion(properties) ==
    LET I == {i \in 1..Len(properties) :
                  /\ Complete(properties[i])
                  /\ properties[i].name \in sbom_java_props
                  /\ properties[i].value # "" /\ properties[i].value # "null"}
    IN  IF I = {} THEN None
        ELSE properties[CHOOSE i \in I : \A j \in I : i <= j].value

ToolPropertyNamed(prop) ==
    /\ Complete(prop)
    /\ Contains(Lower(prop.name), "java") /\ Contains(Lower(prop.name), "version")

\* JSON variant, the loop over metadata.tools: in a tool that has a name, the
\* first property whose name holds "java" and "version" sets java_version to
\* its value, whatever the value; the loop stops once java_version is truthy.
RECURSIVE JsonToolsVersion(_, _)
JsonToolsVersion(tools, java_version) ==
    IF tools = <<>> THEN java_version
    ELSE LET tool == Head(tools)
             I == {i \in 1..Len(tool.properties) : ToolPropertyNamed(tool.properties[i])}
             found == IF tool.name = None \/ I = {} THEN java_version
                      ELSE tool.properties[CHOOSE i \in I : \A j \in I : i <= j].value
         IN  IF Truthy(found) THEN found ELSE JsonToolsVersion(Tail(tools), found)

\* XML variant of the same loop: a value that is empty or "null" is passed over.
RECURSIVE XmlToolsVersion(_, _)
XmlToolsVersion(tools, java_version) ==
    IF tools = <<>> THEN java_version
    ELSE LET tool == Head(tools)
             I == {i \in 1..Len(tool.properties) :
                       /\ ToolPropertyNamed(tool.properties[i])
                       /\ tool.properties[i].value # "" /\ tool.properties[i].value # "null"}
             found == IF I = {} THEN java_version
                      ELSE tool.properties[CHOOSE i \in I : \A j \in I : i <= j].value
         IN  IF Truthy(found) THEN found ELSE XmlToolsVersion(Tail(tools), found)

\* Runtime-version discovery of the JSON variant.
JsonDiscover(doc) ==
    LET m == MetadataVersion(doc.metadata_properties)
    IN  IF m # None THEN m ELSE JsonToolsVersion(doc.tools, None)

\* Runtime-version discovery of the XML variant.
XmlDiscover(doc) ==
    LET m == MetadataVersion(doc.metadata_properties)
    IN  IF m # None THEN m ELSE XmlToolsVersion(doc.tools, None)

\* components_by_ref: the components that carry a bom-ref, the last one of a
\* ref kept.
RECURSIVE ComponentsByRef(_, _)
ComponentsByRef(components, by_ref) ==
    IF components = <<>> THEN by_ref
    ELSE LET c == Head(components)
         IN  ComponentsByRef(Tail(components),
                             IF c.bom_ref # None THEN Put(by_ref, c.bom_ref, c) ELSE by_ref)

\* JSON variant: dependency_tree[ref] = dependsOn for every entry with a ref.
RECURSIVE JsonDependencyTree(_, _)
JsonDependencyTree(dependencies, tree) ==
    IF dependencies = <<>> THEN tree
    ELSE LET d == Head(dependencies)
         IN  JsonDependencyTree(Tail(dependencies),
                                IF d.ref # None THEN Put(tree, d.ref, d.dependsOn) ELSE tree)

\* The nested child elements of a declaration are dependency elements too, and
\* have no children of their own: each sets its own entry to the empty list.
RECURSIVE ClearChildren(_, _)
ClearChildren(children, tree) ==
    IF children = <<>> THEN tree
    ELSE ClearChildren(Tail(children), Put(tree, Head(children), <<>>))

\* XML variant: findall('.//cdx:dependency') visits every dependency element in
\* document order, each declaration followed by its nested children.
RECURSIVE XmlDependencyTree(_, _)
XmlDependencyTree(dependencies, tree) ==
    IF dependencies = <<>> THEN tree
    ELSE LET d == Head(dependencies)
             own == IF d.ref # None THEN Put(tree, d.ref, d.dependsOn) ELSE tree
         IN  XmlDependencyTree(Tail(dependencies), ClearChildren(d.dependsOn, own))

\* _collect_transitive_deps as a function of (ref, dependency_tree): st holds
\* result and visited.
RECURSIVE Collect(_, _, _)
RECURSIVE CollectChildren(_, _, _)
Collect(ref, tree, st) ==
    IF ref \in st.visited THEN st
    ELSE LET st1 == [st EXCEPT !.visited = @ \cup {ref}]
         IN  IF ref \in DOMAIN tree THEN CollectChildren(tree[ref], tree, st1) ELSE st1

CollectChildren(children, tree, st) ==
    IF children = <<>> THEN st
    ELSE CollectChildren(Tail(children), tree,
                         Collect(Head(children), tree,
                                 [st EXCEPT !.result = @ \cup {Head(children)}]))

TransitiveRefs(ref, tree) == Collect(ref, tree, [result |-> {}, visited |-> {}]).result

\* dict.get(key, '')
OrEmpty(x) == IF x = None THEN "" ELSE x

Coordinate(c) == OrEmpty(c.group) \o ":" \o OrEmpty(c.name) \o ":" \o OrEmpty(c.version)

\* JSON variant: the refs that resolve to a component with a non-empty group
\* and name, as "group:name:version".
JsonTransitiveNames(refs, by_ref) ==
    {Coordinate(by_ref[r]) :
        r \in {x \in refs \cap DOMAIN by_ref : Truthy(by_ref[x].group) /\ Truthy(by_ref[x].name)}}

\* XML variant: the refs that resolve to a component with a group and a name
\* element.
XmlTransitiveNames(refs, by_ref) ==
    {Coordinate(by_ref[r]) :
        r \in {x \in refs \cap DOMAIN by_ref : by_ref[x].group # None /\ by_ref[x].name # None}}

\* What both variants do with a matched component: fold the version into
\* matched_deps with compare_versions; the transitive names, when there are
\* any, are stored under the family name.
RecordMatch(acc, dep_name, version, names) ==
    [matched_deps |->
        Put(acc.matched_deps, dep_name,
            IF dep_name \in DOMAIN acc.matched_deps
            THEN compare_versions(acc.matched_deps[dep_name], version) ELSE version),
     transitive_deps |->
        IF names # {} THEN Put(acc.transitive_deps, dep_name, names) ELSE acc.transitive_deps]

\* A plausible slip: the scope of a library component is not looked at.
JsonComponent_no_scope_filter(acc, c, by_ref, tree, transitive) ==
    IF c.type # "library" THEN acc
    ELSE LET dep_name == Classify(sbom_dep_mappings, OrEmpty(c.group), OrEmpty(c.name))
         IN  IF dep_name = None THEN acc
             ELSE RecordMatch(acc, dep_name, OrEmpty(c.version),
                              IF transitive /\ c.bom_ref # None
                              THEN JsonTransitiveNames(TransitiveRefs(c.bom_ref, tree), by_ref)
                              ELSE {})

\* JSON variant, the body of the loop over the components.
JsonComponent(acc, c, by_ref, tree, transitive) ==
    IF c.type # "library" THEN acc
    ELSE LET group == OrEmpty(c.group)
             name == OrEmpty(c.name)
             version == OrEmpty(c.version)
             scope == IF c.scope = None THEN "required" ELSE c.scope
             dep_name == Classify(sbom_dep_mappings, group, name)
         IN  IF scope \in {"excluded", "optional"} \/ dep_name = None THEN acc
             ELSE RecordMatch(acc, dep_name, version,
                              IF transitive /\ c.bom_ref # None
                              THEN JsonTransitiveNames(TransitiveRefs(c.bom_ref, tree), by_ref)
                              ELSE {})

\* XML variant, the body of the loop over the library components.
XmlComponent(acc, c, by_ref, tree, transitive) ==
    IF c.type # "library" \/ c.group = None \/ c.name = None THEN acc
    ELSE LET version == OrEmpty(c.version)
             scope == IF c.scope = None THEN "required" ELSE c.scope
             dep_name == Classify(sbom_dep_mappings, c.group, c.name)
         IN  IF scope \in {"excluded", "optional"} \/ dep_name = None THEN acc
             ELSE RecordMatch(acc, dep_name, version,
                              IF transitive /\ Truthy(c.bom_ref)
                              THEN XmlTransitiveNames(TransitiveRefs(c.bom_ref, tree), by_ref)
                              ELSE {})

RECURSIVE JsonComponents(_, _, _, _, _)
JsonComponents(components, acc, by_ref, tree, transitive) ==
    IF components = <<>> THEN acc
    ELSE JsonComponents(Tail(components),
                        JsonComponent(acc, Head(components), by_ref, tree, transitive),
                        by_ref, tree, transitive)

RECURSIVE XmlComponents(_, _, _, _, _)
XmlComponents(components, acc, by_ref, tree, transitive) ==
    IF components = <<>> THEN acc
    ELSE XmlComponents(Tail(components),
                       XmlComponent(acc, Head(components), by_ref, tree, transitive),
                       by_ref, tree, transitive)

NoMatches == [matched_deps |-> EmptyDict, transitive_deps |-> EmptyDict]

\* The last step of both variants: inference when discovery found nothing and
\* something matched.
WithInference(explicit, acc) ==
    [java_version |->
        IF explicit = None /\ DOMAIN acc.matched_deps # {}
        THEN sbom_infer_java_version_from_deps(acc.matched_deps) ELSE explicit,
     explicit |-> explicit,
     matched_deps |-> acc.matched_deps,
     transitive_deps |-> acc.transitive_deps]

\* extract_deps_from_json_sbom
extract_deps_from_json_sbom(doc, transitive) ==
    LET by_ref == ComponentsByRef(doc.components, EmptyDict)
        tree == JsonDependencyTree(doc.dependencies, EmptyDict)
    IN  WithInference(JsonDiscover(doc),
                      JsonComponents(doc.components, NoMatches, by_ref, tree, transitive))

\* extract_deps_from_xml_sbom: a file that does not parse gives (None, {}, {}).
extract_deps_from_xml_sbom(file, transitive) ==
    IF ~file.valid THEN WithInference(None, NoMatches)
    ELSE LET doc == file.doc
             by_ref == ComponentsByRef(doc.components, EmptyDict)
             tree == XmlDependencyTree(doc.dependencies, EmptyDict)
         IN  WithInference(XmlDiscover(doc),
                           XmlComponents(doc.components, NoMatches, by_ref, tree, transitive))

\* re.search(r'(\d+\.\d+\.\d+)', basename): the leftmost match, None when
\* there is none.
VersionInName(basename) ==
    LET Rest(t, k) == SubSeq(t, k, Len(t))
        MatchAt(k) ==
            LET a == DigitPrefix(Rest(basename, k))
                r1 == Rest(basename, k + Len(a))
                b == DigitPrefix(Rest(r1, 2))
                r2 == Rest(r1, 2 + Len(b))
                c == DigitPrefix(Rest(r2, 2))
            IN  IF a # "" /\ StartsWith(r1, ".") /\ b # "" /\ StartsWith(r2, ".") /\ c # ""
                THEN a \o "." \o b \o "." \o c ELSE None
        I == {k \in 1..Len(basename) : MatchAt(k) # None}
    IN  IF I = {} THEN None ELSE MatchAt(CHOOSE k \in I : \A j \in I : k <= j)

\* str.replace(old, new)
RECURSIVE Replace(_, _, _)
Replace(s, old, new) ==
    IF Len(s) < Len(old) THEN s
    ELSE IF StartsWith(s, old) THEN new \o Replace(SubSeq(s, Len(old) + 1, Len(s)), old, new)
    ELSE Char(s, 1) \o Replace(SubSeq(s, 2, Len(s)), old, new)

\* {name: version_to_x(version)} over matched_deps
FinalDeps(matched_deps) == [k \in DOMAIN matched_deps |-> sbom_version_to_x(matched_deps[k])]

\* list(a_set): its elements in an order the set's hashing decides.
Orderings(S) == {q \in [1..Cardinality(S) -> S] : Range(q) = S}

ListedTransitive(transitive_deps) ==
    {t \in [DOMAIN transitive_deps -> UNION {Orderings(transitive_deps[k]) : k \in DOMAIN transitive_deps}] :
        \A k \in DOMAIN transitive_deps : t[k] \in Orderings(transitive_deps[k])}

\* The extraction process_sbom_file runs on a file that loads.
SbomExtract(file, transitive) ==
    IF EndsWith(file.name, ".json") THEN extract_deps_from_json_sbom(file.doc, transitive)
    ELSE extract_deps_from_xml_sbom(file, transitive)

\* The records process_sbom_file can return for an extraction result.
process_sbom_file(file, r, transitive) ==
    LET found == VersionInName(file.name)
        version == IF found # None THEN found ELSE "unknown"
        java == IF Truthy(r.java_version) THEN r.java_version ELSE "unknown"
    IN  IF transitive /\ DOMAIN r.transitive_deps # {}
        THEN {[version |-> sbom_version_to_x(version), javaVersion |-> java,
               deps |-> FinalDeps(r.matched_deps), transitiveDeps |-> t] :
                  t \in ListedTransitive(r.transitive_deps)}
        ELSE {[version |-> sbom_version_to_x(version), javaVersion |-> java,
               deps |-> FinalDeps(r.matched_deps)]}

(* The SBOMs the model is run on *)
MaxComponents == 3

Component(group, name, version, scope, bom_ref) ==
    [type |-> "library", group |-> group, name |-> name, version |-> version,
     scope |-> scope, bom_ref |-> bom_ref]

ComponentPool == {
    Component("org.springframework.boot", "spring-boot", "2.7.0", None, "A"),
    Component("org.springframework.boot", "spring-boot-starter", "3.0.1", "required", "B"),
    Component("com.example", "util", "1.0", None, "C"),
    Component("redis.clients", "jedis", "4.3.1", None, None),
    Component("org.springframework", "spring-core", "5.3.21", "optional", None),
    [Component("org.springframework.boot", "spring-boot-app", "3.2.0", None, "A")
         EXCEPT !.type = "application"]}

Dependency(ref, dependsOn) == [ref |-> ref, dependsOn |-> dependsOn]

DependencyPool == {
    <<>>,
    <<Dependency("A", <<"C">>), Dependency("B", <<>>)>>,
    <<Dependency("A", <<"B">>), Dependency("B", <<"C">>)>>,
    <<Dependency("B", <<"C">>), Dependency("A", <<"B">>)>>,
    <<Dependency("A", <<"B", "C">>), Dependency("B", <<"C">>), Dependency("C", <<"A">>)>>}

Property(name, value) == [name |-> name, value |-> value]

MetadataPool == {
    [metadata_properties |-> <<>>, tools |-> <<>>],
    [metadata_properties |-> <<Property("java.version", "17")>>, tools |-> <<>>],
    [metadata_properties |-> <<Property("maven.compiler.release", "null")>>,
     tools |-> <<[name |-> "cyclonedx-maven-plugin",
                  properties |-> <<Property("Java-Version", "21")>>]>>],
    [metadata_properties |-> <<Property("project.build.sourceLevel", "1.8")>>, tools |-> <<>>],
    [metadata_properties |-> <<>>,
     tools |-> <<[name |-> "cyclonedx-maven-plugin",
                  properties |-> <<Property("Java-Version", "null"),
                                   Property("java.version", "17")>>]>>]}

Document(m, components, dependencies) ==
    [metadata_properties |-> m.metadata_properties, tools |-> m.tools,
     components |-> components, dependencies |-> dependencies]

EmptyDocument == Document([metadata_properties |-> <<>>, tools |-> <<>>], <<>>, <<>>)

\* The component lists of at most n components, no component listed twice
\* and no bom-ref given to two components.
ComponentLists(n) ==
    {c \in SeqsUpTo(ComponentPool, n) :
        \A i, j \in 1..Len(c) :
            (c[i] = c[j] \/ (c[i].bom_ref # None /\ c[i].bom_ref = c[j].bom_ref)) => i = j}

Documents(n) ==
    {Document(m, c, d) : m \in MetadataPool, c \in ComponentLists(n), d \in DependencyPool}

Extensions == {".json", ".xml"}

\* sorted(sbom_files): the first name of a run sorts before the second.
SbomFiles(stem, docs) ==
    {[name |-> stem \o e, valid |-> TRUE, doc |-> d] : e \in Extensions, d \in docs}
    \cup {[name |-> stem \o e, valid |-> FALSE, doc |-> EmptyDocument] : e \in Extensions}

\* The runs: one file, or a file that does not load next to a file of one
\* component.
SbomBatches ==
    {<<f>> : f \in SbomFiles("bom-1.2.3", Documents(MaxComponents))}
    \cup {<<f, g>> : f \in SbomFiles("bom-snapshot", {}),
                     g \in SbomFiles("sbom-2.0.1", {Document(m, c, <<>>) :
                                                       m \in MetadataPool,
                                                       c \in ComponentLists(1)})}
    \cup {<<f, g>> : f \in SbomFiles("bom-1.2.3", {Document(m, c, <<>>) :
                                                      m \in MetadataPool,
                                                      c \in ComponentLists(1)}),
                     g \in SbomFiles("sbom-rc", {})}

InitSbom ==
    /\ include_transitive \in BOOLEAN
    /\ sbom_files \in SbomBatches
    /\ sbom_i = 0
    /\ sbom_result = EmptyDict /\ sbom_record = EmptyDict /\ sbom_written = EmptyDict
    /\ sbom_status = "run"
    /\ sbom_previous = EmptyDict
    /\ VerIdle
    /\ WalkIdle
    /\ PomIdle
    /\ CallIdle
    /\ UpdIdle

Loads(file) == EndsWith(file.name, ".xml") \/ file.valid

\* One iteration of the loop of process_sbom_directory: process_sbom_file on a
\* file that loads, and the write of its record.
ProcessSbomFile ==
    /\ sbom_status = "run" /\ sbom_i < Len(sbom_files)
    /\ Loads(sbom_files[sbom_i + 1])
    /\ LET file == sbom_files[sbom_i + 1]
           r == SbomExtract(file, include_transitive)
       IN  /\ sbom_result' = r
           /\ \E output \in process_sbom_file(file, r, include_transitive) :
                  /\ sbom_record' = output
                  /\ sbom_written' = Put(sbom_written,
                                         Replace(output.version, ".x", ".0") \o ".json", output)
    /\ sbom_i' = sbom_i + 1
    /\ UNCHANGED <<include_transitive, sbom_files, sbom_status, sbom_previous>>
    /\ UNCHANGED <<verVars, walkVars, pomVars, callVars, updVars>>

\* json.load on a file that is not JSON: the JSONDecodeError is caught neither
\* in process_sbom_file nor in process_sbom_directory, and ends the run.
SbomLoadError ==
    /\ sbom_status = "run" /\ sbom_i < Len(sbom_files)
    /\ ~Loads(sbom_files[sbom_i + 1])
    /\ sbom_status' = "raised"
    /\ UNCHANGED <<include_transitive, sbom_files, sbom_i, sbom_result, sbom_record,
                   sbom_written, sbom_previous>>
    /\ UNCHANGED <<verVars, walkVars, pomVars, callVars, updVars>>

\* The loop is exhausted: return 0.
SbomReturn ==
    /\ sbom_status = "run" /\ sbom_i = Len(sbom_files)
    /\ sbom_status' = "done"
    /\ UNCHANGED <<include_transitive, sbom_files, sbom_i, sbom_result, sbom_record,
                   sbom_written, sbom_previous>>
    /\ UNCHANGED <<verVars, walkVars, pomVars, callVars, updVars>>

\* The script is run once more over the same, unchanged directory: the files
\* found are the same (the records written do not match the glob patterns),
\* and what the first run wrote is kept for comparison.
SbomRerun ==
    /\ sbom_status = "done" /\ sbom_previous = EmptyDict
    /\ sbom_previous' = sbom_written
    /\ sbom_i' = 0
    /\ sbom_result' = EmptyDict /\ sbom_record' = EmptyDict /\ sbom_written' = EmptyDict
    /\ sbom_status' = "run"
    /\ UNCHANGED <<include_transitive, sbom_files>>
    /\ UNCHANGED <<verVars, walkVars, pomVars, callVars, updVars>>

-----------------------------------------------------------------------------
(* Single calls of the pure functions, over bounded inputs                 *)

Extractors == {"pom", "sbom"}

\* dep_mappings of the extractor.
Catalog(extractor) ==
    IF extractor = "pom" THEN pom_dep_mappings ELSE sbom_dep_mappings

\* infer_java_version_from_deps of the extractor.
Infer(extractor, deps) ==
    IF extractor = "pom" THEN pom_infer_java_version_from_deps(deps)
    ELSE sbom_infer_java_version_from_deps(deps)

\* Every group of the catalogs, and one that is in neither.
Groups ==
    {sbom_dep_mappings[i].group : i \in 1..Len(sbom_dep_mappings)} \cup {"com.example"}

\* Artifact identifiers: selectors of the catalogs met exactly, met by
\* pattern, missed by a suffix or a prefix, and the empty identifier.
Artifacts == {
    "", "spring-core", "spring-web", "spring-other", "spring-core-test",
    "spring-boot-starter", "spring-security-core", "spring-security",
    "spring-integration-core", "spring-data-jpa", "spring-kafka", "spring-retry",
    "spring-cloud-function-context", "spring-cloud-stream", "azure-core",
    "azure-core-http-netty", "micrometer-core", "reactor-core",
    "reactor-netty-http", "reactor-netty", "jedis" }

WithKey(d, k, v) == IF v = None THEN d ELSE Put(d, k, v)

\* Dicts of matched families for the inference: each family it reads is
\* absent, or has a version that one of its rules takes, or one that none takes.
InferDeps ==
    { WithKey(WithKey(WithKey(WithKey(WithKey(EmptyDict,
          "spring-boot", b), "spring-framework", f), "azure-sdk-for-java", a),
          "azure-core-http-netty", n), "reactor", r) :
        b \in {None, "3.2.1", "2.7.0", "1.5.9"},
        f \in {None, "6.0.3", "5.3.21", "4.3.0"},
        a \in {None, "1.45.0", "1.39.0"},
        n \in {None, "1.40.2"},
        r \in {None, "3.6.0", "3.4.1", "2.0.0"} }

Calls ==
    {[fn |-> "classify", extractor |-> e, group |-> g, artifact |-> a, deps |-> EmptyDict] :
        e \in Extractors, g \in Groups, a \in Artifacts}
    \cup {[fn |-> "infer", extractor |-> e, group |-> "", artifact |-> "", deps |-> d] :
        e \in Extractors, d \in InferDeps}

InitCall ==
    /\ call \in Calls
    /\ call_ret = None
    /\ pc_call = "called"
    /\ VerIdle
    /\ WalkIdle
    /\ PomIdle
    /\ SbomIdle
    /\ UpdIdle

\* The classification loop over dep_mappings for one group and artifact.
ClassifyCall ==
    /\ pc_call = "called"
    /\ call.fn = "classify"
    /\ call_ret' = Classify(Catalog(call.extractor), call.group, call.artifact)
    /\ pc_call' = "returned"
    /\ UNCHANGED call
    /\ UNCHANGED <<verVars, walkVars, pomVars, sbomVars, updVars>>

\* infer_java_version_from_deps(deps)
InferCall ==
    /\ pc_call = "called"
    /\ call.fn = "infer"
    /\ call_ret' = Infer(call.extractor, call.deps)
    /\ pc_call' = "returned"
    /\ UNCHANGED call
    /\ UNCHANGED <<verVars, walkVars, pomVars, sbomVars, updVars>>

-----------------------------------------------------------------------------
(* Mapping updaters (update_azure_sdk_mappings.py and                      *)
(* update_azure_sdk_sbom_mappings.py)                                      *)
(*                                                                         *)
(* A rewrite dict is the sequence of its items [key, value] in insertion   *)
(* order, the order json.dump writes.  A nextRewrite is a record with a    *)
(* flag null, set for Python's None.  A tag is given with the triple that  *)
(* parse_version reads from it.                                            *)

Keys(rewrite_dict) == [i \in 1..Len(rewrite_dict) |-> rewrite_dict[i].key]

HasKey(rewrite_dict, k) == \E i \in 1..Len(rewrite_dict) : rewrite_dict[i].key = k

\* rewrite_dict[k] = v: a new key is appended, a known key keeps its place.
SetItem(rewrite_dict, k, v) ==
    IF HasKey(rewrite_dict, k)
    THEN [i \in 1..Len(rewrite_dict) |->
             IF rewrite_dict[i].key = k THEN [key |-> k, value |-> v] ELSE rewrite_dict[i]]
    ELSE Append(rewrite_dict, [key |-> k, value |-> v])

NullLink == [null |-> TRUE, version |-> None, project |-> None]

Link(version) == [null |-> FALSE, version |-> version, project |-> None]

\* version_key of sort_versions
version_key(v) ==
    LET parts == Split(Replace(v, ".x", ""), ".")
        major == IF Len(parts) > 0 /\ IsDigit(parts[1]) THEN IntOf(parts[1]) ELSE 0
        minor == IF Len(parts) > 1 /\ IsDigit(parts[2]) THEN IntOf(parts[2]) ELSE 0
    IN  <<major, minor>>

\* Tuples (major, minor) compare by their first fields, then by their second.
PairLess(a, b) == a[1] < b[1] \/ (a[1] = b[1] /\ a[2] < b[2])

\* A plausible slip: the key of the sort is the major alone.
sort_versions_by_major(version_list) ==
    LET n == Len(version_list)
        Before(i, j) == \/ version_key(version_list[i])[1] < version_key(version_list[j])[1]
                        \/ /\ version_key(version_list[i])[1] = version_key(version_list[j])[1]
                           /\ i < j
        Rank(i) == Cardinality({j \in 1..n : Before(j, i)}) + 1
    IN  [r \in 1..n |-> version_list[CHOOSE i \in 1..n : Rank(i) = r]]

\* sort_versions: sorted(version_list, key=version_key), a stable sort.
sort_versions(version_list) ==
    LET n == Len(version_list)
        Before(i, j) == \/ PairLess(version_key(version_list[i]), version_key(version_list[j]))
                        \/ /\ version_key(version_list[i]) = version_key(version_list[j])
                           /\ i < j
        Rank(i) == Cardinality({j \in 1..n : Before(j, i)}) + 1
    IN  [r \in 1..n |-> version_list[CHOOSE i \in 1..n : Rank(i) = r]]

\* sort_rewrite_dict: a new dict filled in the order of sort_versions.
sort_rewrite_dict(rewrite_dict) ==
    LET sorted_versions == sort_versions(Keys(rewrite_dict))
        Item(k) == CHOOSE it \in Range(rewrite_dict) : it.key = k
    IN  [r \in 1..Len(sorted_versions) |-> Item(sorted_versions[r])]

\* update_next_rewrite_links: every version but the last of sort_versions
\* points to the next one, the last gets None; the dict keeps its order.
update_next_rewrite_links(rewrite_dict) ==
    LET versions == sort_versions(Keys(rewrite_dict))
        n == Len(versions)
        Pos(k) == CHOOSE i \in 1..n : versions[i] = k
        NextOf(k) == IF Pos(k) < n THEN Link(versions[Pos(k) + 1]) ELSE NullLink
    IN  [i \in 1..Len(rewrite_dict) |->
            [rewrite_dict[i] EXCEPT !.value.nextRewrite = NextOf(rewrite_dict[i].key)]]

\* ensure_java_version_consistency: with spring-boot among the generations,
\* major is set to a minor that is not 0.
ensure_java_version_consistency(rewrite_dict) ==
    LET Fixed(req) ==
            LET jv == req.supportedJavaVersions
            IN  IF /\ "spring-boot" \in DOMAIN req.supportedGenerations
                   /\ "minor" \in DOMAIN jv /\ jv["minor"] # 0
                THEN [req EXCEPT !.supportedJavaVersions = Put(jv, "major", jv["minor"])]
                ELSE req
    IN  [i \in 1..Len(rewrite_dict) |->
            [rewrite_dict[i] EXCEPT !.value.requirements = Fixed(@)]]

\* The rewrite object both updaters build from the integer runtime version
\* and the deps of a record.
RewriteObject(java_version, supported_generations) ==
    [nextRewrite |-> [null |-> FALSE, version |-> None, project |-> None],
     requirements |->
        [supportedJavaVersions |->
             IF "spring-boot" \in DOMAIN supported_generations
             THEN Put(Put(EmptyDict, "minor", java_version), "major", java_version)
             ELSE Put(EmptyDict, "minor", java_version),
         supportedGenerations |-> supported_generations]]

\* create_rewrite_object of update_azure_sdk_mappings.py: int() of the
\* javaVersion of the record raises ValueError for a string that is no integer.
pom_create_rewrite_object(version_data) ==
    IF PyIntOK(version_data.javaVersion)
    THEN [exception |-> None,
          value |-> RewriteObject(PyInt(version_data.javaVersion), version_data.deps)]
    ELSE [exception |-> "ValueError", value |-> EmptyDict]

\* update_azure_sdk_sbom_mappings.py: the javaVersion of the record after the
\* repair in main (a version that is missing, "null", "unknown" or no digit
\* string is replaced by that of the SBOM metadata, else by the inference from
\* the deps, else by 11) as create_rewrite_object converts it; java_from_sbom
\* is the result of get_java_version_from_sbom, 0 for None.
sbom_create_rewrite_object(version_data, java_from_sbom) ==
    LET raw == version_data.javaVersion
        inferred == sbom_infer_java_version_from_deps(version_data.deps)
        java_version ==
            IF raw \in {"", "null", "unknown"} \/ ~IsDigit(raw)
            THEN IF java_from_sbom # 0 THEN java_from_sbom
                 ELSE IF inferred # None THEN PyInt(inferred) ELSE 11
            ELSE IntOf(raw)
    IN  [exception |-> None, value |-> RewriteObject(java_version, version_data.deps)]

\* existing_major_minor of main: the keys of the mapping with two integer
\* fields and a positive major.
existing_major_minor(existing_versions) ==
    LET Parts(v) == Split(Replace(v, ".x", ""), ".")
    IN  {<<PyInt(Parts(v)[1]), PyInt(Parts(v)[2])>> :
            v \in {w \in Range(existing_versions) :
                      /\ Len(Parts(w)) >= 2
                      /\ PyIntOK(Parts(w)[1]) /\ PyIntOK(Parts(w)[2])
                      /\ PyInt(Parts(w)[1]) > 0}}

\* group_tags_by_major_minor: for every (major, minor) with major > 0 the tag
\* with the highest patch, the first of them in the list on a tie.
group_tags_by_major_minor(tags) ==
    LET Valid == {i \in 1..Len(tags) : tags[i].version[1] > 0}
        KeyOf(i) == <<tags[i].version[1], tags[i].version[2]>>
        Latest(k) == CHOOSE i \in Valid :
                        /\ KeyOf(i) = k
                        /\ \A j \in Valid : KeyOf(j) = k =>
                              \/ tags[j].version[3] < tags[i].version[3]
                              \/ tags[j].version[3] = tags[i].version[3] /\ i <= j
    IN  [k \in {KeyOf(i) : i \in Valid} |-> tags[Latest(k)].tag]

\* missing_versions of main: the (major, minor) of the tags that the mapping
\* lacks, sorted, each with its latest tag.
MissingVersions(existing_versions, tags) ==
    LET latest_tags == group_tags_by_major_minor(tags)
        missing == DOMAIN latest_tags \ existing_major_minor(existing_versions)
        Rank(k) == Cardinality({j \in missing : PairLess(j, k)}) + 1
    IN  [r \in 1..Cardinality(missing) |->
            LET k == CHOOSE j \in missing : Rank(j) = r
            IN  [version |-> k, tag |-> latest_tags[k]]]

\* get_major_minor_string
get_major_minor_string(major, minor) == ToString(major) \o "." \o ToString(minor) \o ".x"

\* A plausible slip: the output of rev-parse --abbrev-ref taken as it is.
OriginalRef_abbrev_ref(head) == head.abbrev_ref

\* The ref main restores at the end: the branch name of rev-parse
\* --abbrev-ref, or the commit of rev-parse HEAD in detached HEAD state or
\* when the first command fails.
OriginalRef(head) ==
    IF head.abbrev_ref = "HEAD" \/ head.returncode # 0 THEN head.sha ELSE head.abbrev_ref

\* except (subprocess.CalledProcessError, FileNotFoundError) of the loop
Caught(exception) == exception \in {"CalledProcessError", "FileNotFoundError"}

-----------------------------------------------------------------------------
(* Inputs of the mapping updaters                                          *)

Tag(name, major, minor, patch) == [tag |-> name, version |-> <<major, minor, patch>>]

\* The output of git tag -l: no tag; tags of three (major, minor), not in
\* their order, two of them of one (major, minor); one tag.
TagLists == {
    <<>>,
    <<Tag("azure-core_1.10.0", 1, 10, 0), Tag("azure-core_1.2.1", 1, 2, 1),
      Tag("azure-core_2.0.0", 2, 0, 0), Tag("azure-core_1.2.3", 1, 2, 3)>>,
    <<Tag("azure-core_1.2.1", 1, 2, 1)>>}

\* Where the repository stands before the run: on a branch, in detached HEAD
\* state, and with a failing rev-parse --abbrev-ref; at is the ref it is at.
Heads == {
    [abbrev_ref |-> "main", returncode |-> 0, sha |-> "4f2a9c1", at |-> "main"],
    [abbrev_ref |-> "HEAD", returncode |-> 0, sha |-> "4f2a9c1", at |-> "4f2a9c1"],
    [abbrev_ref |-> "", returncode |-> 128, sha |-> "4f2a9c1", at |-> "4f2a9c1"]}

VersionData(javaVersion, deps) == [javaVersion |-> javaVersion, deps |-> deps]

\* What processing one tag meets: a failing git checkout, a failing mvn or
\* extractor command, no record file after the extractor ran, or a record;
\* java_from_sbom is what the SBOM of the tag declares (0: nothing).
Outcomes == {
    [failure |-> "checkout", record |-> VersionData("", EmptyDict), java_from_sbom |-> 0],
    [failure |-> "command", record |-> VersionData("", EmptyDict), java_from_sbom |-> 0],
    [failure |-> "record", record |-> VersionData("", EmptyDict), java_from_sbom |-> 0],
    [failure |-> "none", java_from_sbom |-> 0,
     record |-> VersionData("17", Put(EmptyDict, "spring-boot", "3.2.x"))],
    [failure |-> "none", java_from_sbom |-> 0,
     record |-> VersionData("unknown", Put(EmptyDict, "spring-framework", "5.3.x"))],
    [failure |-> "none", java_from_sbom |-> 8, record |-> VersionData("1.8", EmptyDict)]}

\* The mapping files: an empty rewrite; two versions out of order with links
\* to be redone; one version.
Mappings == {
    [rewrite |-> <<>>],
    [rewrite |-> <<[key |-> "1.10.x", value |-> RewriteObject(11, EmptyDict)],
                   [key |-> "1.2.x",
                    value |-> [RewriteObject(8, Put(EmptyDict, "spring-boot", "2.7.x"))
                                  EXCEPT !.nextRewrite = NullLink,
                                         !.requirements.supportedJavaVersions =
                                             Put(EmptyDict, "minor", 8)]]>>],
    [rewrite |-> <<[key |-> "1.2.x",
                    value |-> [RewriteObject(8, EmptyDict)
                                  EXCEPT !.nextRewrite = Link("1.3.x")]]>>]}

\* The repositories: tags, head, mapping file, and an outcome for every
\* version the mapping lacks.
Repos ==
    UNION {{[tags |-> t, head |-> h, mapping |-> m, world |-> w] :
               w \in [{mv.version : mv \in Range(MissingVersions(Keys(m.rewrite), t))}
                         -> Outcomes]} :
           t \in TagLists, h \in Heads, m \in Mappings}

InitUpd ==
    /\ args \in [updater : Extractors, skip_on_error : BOOLEAN, dry_run : BOOLEAN]
    /\ repo \in Repos
    /\ mapping_data = EmptyDict
    /\ mapping_file = repo.mapping
    /\ missing_versions = <<>>
    /\ original_ref = None
    /\ checkouts = <<>>
    /\ upd_i = 0
    /\ pc_upd = "start"
    /\ VerIdle
    /\ WalkIdle
    /\ PomIdle
    /\ SbomIdle
    /\ CallIdle

\* main up to its return for a repository without tags, and for a dry run
\* with missing versions.
UpdReturnEarly ==
    /\ pc_upd = "start"
    /\ LET missing == MissingVersions(Keys(mapping_file.rewrite), repo.tags)
       IN  /\ repo.tags = <<>> \/ (missing # <<>> /\ args.dry_run)
           /\ missing_versions' = missing
    /\ mapping_data' = mapping_file
    /\ pc_upd' = "done"
    /\ UNCHANGED <<args, repo, mapping_file, original_ref, checkouts, upd_i>>
    /\ UNCHANGED <<verVars, walkVars, pomVars, sbomVars, callVars>>

\* main with no missing version: consistency, sorting when the order differs,
\* links, and the mapping file written.
UpdNoMissing ==
    /\ pc_upd = "start"
    /\ repo.tags # <<>>
    /\ MissingVersions(Keys(mapping_file.rewrite), repo.tags) = <<>>
    /\ LET fixed == ensure_java_version_consistency(mapping_file.rewrite)
           sorted == IF Keys(fixed) # sort_versions(Keys(fixed))
                     THEN sort_rewrite_dict(fixed) ELSE fixed
       IN  mapping_data' = [rewrite |-> update_next_rewrite_links(sorted)]
    /\ mapping_file' = mapping_data'
    /\ pc_upd' = "done"
    /\ UNCHANGED <<args, repo, missing_versions, original_ref, checkouts, upd_i>>
    /\ UNCHANGED <<verVars, walkVars, pomVars, sbomVars, callVars>>

\* main up to the try statement: the mapping read, the missing versions
\* found, the original ref recorded.
UpdRecordRef ==
    /\ pc_upd = "start"
    /\ repo.tags # <<>>
    /\ ~args.dry_run
    /\ MissingVersions(Keys(mapping_file.rewrite), repo.tags) # <<>>
    /\ missing_versions' = MissingVersions(Keys(mapping_file.rewrite), repo.tags)
    /\ mapping_data' = mapping_file
    /\ original_ref' = OriginalRef(repo.head)
    /\ upd_i' = 1
    /\ pc_upd' = "loop"
    /\ UNCHANGED <<args, repo, mapping_file, checkouts>>
    /\ UNCHANGED <<verVars, walkVars, pomVars, sbomVars, callVars>>

\* One iteration of the loop over missing_versions: checkout of the tag,
\* generation, extraction, the record read and converted, the rewrite object
\* added; an exception is skipped, or leaves the loop.
UpdProcessVersion ==
    /\ pc_upd = "loop"
    /\ upd_i <= Len(missing_versions)
    /\ LET mv == missing_versions[upd_i]
           version_str == get_major_minor_string(mv.version[1], mv.version[2])
           outcome == repo.world[mv.version]
           created == IF args.updater = "pom"
                      THEN pom_create_rewrite_object(outcome.record)
                      ELSE sbom_create_rewrite_object(outcome.record, outcome.java_from_sbom)
           exception == IF outcome.failure \in {"checkout", "command"}
                        THEN "CalledProcessError"
                        ELSE IF outcome.failure = "record" THEN "FileNotFoundError"
                        ELSE created.exception
       IN  /\ checkouts' = Append(checkouts, mv.tag)
           /\ IF exception = None
              THEN /\ mapping_data' = [rewrite |-> SetItem(mapping_data.rewrite,
                                                          version_str, created.value)]
                   /\ upd_i' = upd_i + 1
                   /\ pc_upd' = "loop"
              ELSE IF Caught(exception) /\ args.skip_on_error
              THEN /\ upd_i' = upd_i + 1
                   /\ pc_upd' = "loop"
                   /\ UNCHANGED mapping_data
              ELSE /\ pc_upd' = "raised"
                   /\ UNCHANGED <<mapping_data, upd_i>>
    /\ UNCHANGED <<args, repo, mapping_file, missing_versions, original_ref>>
    /\ UNCHANGED <<verVars, walkVars, pomVars, sbomVars, callVars>>

\* After the loop: the rewrite dict sorted, the links and the consistency
\* redone, the mapping file written.
UpdPostProcess ==
    /\ pc_upd = "loop"
    /\ upd_i > Len(missing_versions)
    /\ mapping_data' =
           [rewrite |-> ensure_java_version_consistency(
                            update_next_rewrite_links(sort_rewrite_dict(mapping_data.rewrite)))]
    /\ mapping_file' = mapping_data'
    /\ pc_upd' = "restore"
    /\ UNCHANGED <<args, repo, missing_versions, original_ref, checkouts, upd_i>>
    /\ UNCHANGED <<verVars, walkVars, pomVars, sbomVars, callVars>>

\* The finally clause: git checkout of the original ref, after the try block
\* has completed or while an exception leaves it.
UpdRestore ==
    /\ pc_upd \in {"restore", "raised"}
    /\ checkouts' = Append(checkouts, original_ref)
    /\ pc_upd' = IF pc_upd = "restore" THEN "done" ELSE "failed"
    /\ UNCHANGED <<args, repo, mapping_data, mapping_file, missing_versions, original_ref, upd_i>>
    /\ UNCHANGED <<verVars, walkVars, pomVars, sbomVars, callVars>>

-----------------------------------------------------------------------------
(* Specifications                                                          *)

NextVer == CompareVersions

SpecVer == InitVer /\ [][NextVer]_vars

NextWalk == WalkCall \/ WalkChild \/ WalkReturn

NextPom == ProcessPomFile \/ PomReturn

SpecPom == InitPom /\ [][NextPom]_vars

NextSbom == ProcessSbomFile \/ SbomLoadError \/ SbomReturn \/ SbomRerun

SpecSbom == InitSbom /\ [][NextSbom]_vars

NextCall == ClassifyCall \/ InferCall

SpecCall == InitCall /\ [][NextCall]_vars

NextUpd ==
    UpdReturnEarly \/ UpdNoMissing \/ UpdRecordRef \/ UpdProcessVersion
    \/ UpdPostProcess \/ UpdRestore

SpecUpd == InitUpd /\ [][NextUpd]_vars

\* The walk is sequential code: a step that can be taken is taken.
SpecWalk == InitWalk /\ [][NextWalk]_vars /\ WF_vars(NextWalk)

-----------------------------------------------------------------------------
(* Properties of the version utilities                                     *)

\* The i-th numeric part of a version, 0 beyond its last part.
PartAt(v, i) ==
    LET p == VersionParts(CleanVersion(v))
    IN  IF i <= Len(p) THEN p[i] ELSE 0

NumParts(v) == Len(VersionParts(CleanVersion(v)))

\* C8: compare_versions(a, b) returns one of its two operands: the one holding
\* the first strictly greater numeric part (suffix after '-' or '_' dropped,
\* digit-only dot segments as integers, the shorter list padded with zeros),
\* and a when all parts tie; ("2.1.0","2.0.9") gives "2.1.0" and
\* ("1.2","1.2.0") gives "1.2".
C8_CompareVersions ==
    pc_ver = "return" =>
        LET n == Max(NumParts(v1), NumParts(v2))
            TieBefore(k) == \A j \in 1..(k - 1) : PartAt(v1, j) = PartAt(v2, j)
        IN  /\ ret \in {v1, v2}
            /\ TieBefore(n + 1) => ret = v1
            /\ \A k \in 1..n :
                   /\ (TieBefore(k) /\ PartAt(v1, k) > PartAt(v2, k)) => ret = v1
                   /\ (TieBefore(k) /\ PartAt(v1, k) < PartAt(v2, k)) => ret = v2
            /\ (v1 = "2.1.0" /\ v2 = "2.0.9") => ret = "2.1.0"
            /\ (v1 = "2.0.9" /\ v2 = "2.1.0") => ret = "2.1.0"
            /\ (v1 = "1.2" /\ v2 = "1.2.0") => ret = "1.2"
            /\ (v1 = "1.2.0" /\ v2 = "1.2") => ret = "1.2.0"
            /\ (v1 = "1.9" /\ v2 = "1.10") => ret = "1.10"
            /\ (v1 = "1.2-SNAPSHOT" /\ v2 = "1.2") => ret = "1.2-SNAPSHOT"

C8_Witness ==
    /\ pc_ver = "return" /\ v1 = "1.2" /\ v2 = "1.2.0" /\ ret = "1.2"

-----------------------------------------------------------------------------
(* Properties of the graph walk                                            *)

Children(r) ==
    IF r \in DOMAIN dependency_tree THEN Range(dependency_tree[r]) ELSE {}

RECURSIVE Closure(_)
Closure(S) ==
    LET T == S \cup UNION {Children(r) : r \in S}
    IN  IF T = S THEN S ELSE Closure(T)

\* The refs reachable from the root over one or more edges.
ReachableFromRoot == Closure(Children(root_ref))

\* C1: the set collected from an empty result never contains the root ref.
C1_RootExcluded ==
    pc_walk = "done" => root_ref \notin result

\* C9: the collected set holds every ref other than the root that is reachable
\* from the root over one or more edges, and no ref that is not reachable; a
\* child without an adjacency entry is included and not expanded further.
C9_ResultIsReachableSet ==
    pc_walk = "done" =>
        /\ \A r \in ReachableFromRoot \ {root_ref} : r \in result
        /\ \A r \in result : r \in ReachableFromRoot
        /\ \A r \in result : r \notin DOMAIN dependency_tree => Children(r) = {}

\* A finished walk over a graph with a two-step path to a leaf that has no
\* adjacency entry.
C9_Witness ==
    /\ pc_walk = "done"
    /\ \E r \in result :
           /\ r \notin DOMAIN dependency_tree
           /\ r \notin Children(root_ref)
           /\ r # root_ref

\* C10: the walk terminates on every adjacency map, and no ref passes the
\* visited guard more than once.
C10_Terminates ==
    /\ [](\A r \in DOMAIN expansions : expansions[r] <= 1)
    /\ <>(pc_walk = "done")

\* A finished walk over a graph with a cycle through the root and a ref listed
\* twice as a child.
C10_Witness ==
    /\ pc_walk = "done"
    /\ root_ref \in result
    /\ \E r \in DOMAIN dependency_tree :
           /\ Len(dependency_tree[r]) = 2
           /\ dependency_tree[r][1] = dependency_tree[r][2]

-----------------------------------------------------------------------------
(* Properties of the build-descriptor extractor                            *)

\* A dependency element that passes the filters of the extractor.
Eligible(dep) ==
    /\ dep.groupId # None /\ dep.version # None
    /\ dep.scope \in {None, "compile"}

FamilyOf(dep) ==
    Classify(pom_dep_mappings, Strip(dep.groupId),
             IF dep.artifactId = None THEN "" ELSE Strip(dep.artifactId))

\* The versions a section declares for a family, in document order.
MatchedVersions(sec, family) ==
    LET Hit(dep) == Eligible(dep) /\ FamilyOf(dep) = family
        hits == SelectSeq(sec.dependencies, Hit)
    IN  IF sec.wellformed THEN [i \in 1..Len(hits) |-> Strip(hits[i].version)] ELSE <<>>

RECURSIVE FoldCompare(_, _)
FoldCompare(acc, versions) ==
    IF versions = <<>> THEN acc
    ELSE FoldCompare(compare_versions(acc, Head(versions)), Tail(versions))

\* The highest-version-wins fold of a non-empty list, in list order.
HighestOf(versions) == FoldCompare(Head(versions), Tail(versions))

RECURSIVE Concat(_)
Concat(lists) == IF lists = <<>> THEN <<>> ELSE Head(lists) \o Concat(Tail(lists))

Families == {pom_dep_mappings[i].name : i \in 1..Len(pom_dep_mappings)}

\* C2: within one project section, the version recorded for a family is the
\* highest-version-wins fold of the versions matched for it in document order.
C2_SectionHighestWins ==
    \A i \in 1..Len(modules) : \A f \in Families :
        LET versions == MatchedVersions(xml_sections[i], f)
        IN  versions # <<>> =>
                /\ f \in DOMAIN modules[i].deps
                /\ modules[i].deps[f] = HighestOf(versions)

\* C7: across all sections of one input, the version recorded for a family is
\* the fold of compare_versions over every version matched for it, in encounter
\* order.
C7_MergedHighestWins ==
    \A f \in Families :
        LET versions == Concat([i \in 1..Len(xml_sections) |-> MatchedVersions(xml_sections[i], f)])
        IN  versions # <<>> =>
                /\ f \in DOMAIN all_deps
                /\ all_deps[f] = HighestOf(versions)

\* C5: when at least one section yields a runtime-version token, the merged
\* runtime version is the first collected token whose normalised value is
\* maximal among the collected tokens.
C5_HighestTokenKept ==
    java_versions # <<>> =>
        \E i \in 1..Len(java_versions) :
            /\ pom_java_version = java_versions[i]
            /\ \A j \in 1..Len(java_versions) :
                   /\ normalize_java_version(java_versions[j]) <= normalize_java_version(java_versions[i])
                   /\ j < i => normalize_java_version(java_versions[j]) < normalize_java_version(java_versions[i])

-----------------------------------------------------------------------------
(* Properties of the SBOM extractor                                        *)

\* The file of the last completed iteration.
LastSbom == sbom_files[sbom_i]

IsJson(file) == EndsWith(file.name, ".json")

\* The adjacency map the extractor builds for a file.
TreeOf(file) ==
    IF IsJson(file) THEN JsonDependencyTree(file.doc.dependencies, EmptyDict)
    ELSE XmlDependencyTree(file.doc.dependencies, EmptyDict)

RECURSIVE ClosureIn(_, _)
ClosureIn(tree, S) ==
    LET Kids(r) == IF r \in DOMAIN tree THEN Range(tree[r]) ELSE {}
        T == S \cup UNION {Kids(r) : r \in S}
    IN  IF T = S THEN S ELSE ClosureIn(tree, T)

\* The refs reachable from ref over one or more edges of the map.
ReachableIn(tree, ref) ==
    ClosureIn(tree, IF ref \in DOMAIN tree THEN Range(tree[ref]) ELSE {})

\* A component that passes the filters and is classified as the family.
MatchedAs(c, family) ==
    /\ c.type = "library" /\ c.group # None /\ c.name # None
    /\ c.scope \notin {"excluded", "optional"}
    /\ Classify(sbom_dep_mappings, c.group, c.name) = family

\* The coordinates of the components the refs resolve to.
CoordinatesOf(refs, components) ==
    {Coordinate(components[i]) : i \in {j \in 1..Len(components) : components[j].bom_ref \in refs}}

SbomFamilies == {sbom_dep_mappings[i].name : i \in 1..Len(sbom_dep_mappings)}

\* C3: for each matched family, the returned transitive set is the union, over
\* every matched component of the family that carries a bom-ref, of the
\* coordinates of the components reachable from it in the adjacency map.
C3_TransitiveUnion ==
    (sbom_i > 0 /\ include_transitive) =>
        LET components == LastSbom.doc.components
            tree == TreeOf(LastSbom)
            RootsOf(f) == {components[i].bom_ref :
                            i \in {j \in 1..Len(components) :
                                       MatchedAs(components[j], f) /\ components[j].bom_ref # None}}
            Expected(f) == UNION {CoordinatesOf(ReachableIn(tree, r), components) : r \in RootsOf(f)}
            Got(f) == IF f \in DOMAIN sbom_result.transitive_deps
                           THEN sbom_result.transitive_deps[f] ELSE {}
        IN  \A f \in DOMAIN sbom_result.matched_deps : Got(f) = Expected(f)

\* The name of the record written for a file.
WrittenAs(file) ==
    LET found == VersionInName(file.name)
    IN  Replace(sbom_version_to_x(IF found # None THEN found ELSE "unknown"), ".x", ".0") \o ".json"

\* C4: an input that fails to parse yields an empty result without raising,
\* and the record of every other input of the batch is written.
C4_InvalidInputIsolated ==
    /\ sbom_status # "raised"
    /\ sbom_status = "done" =>
           \A i \in 1..Len(sbom_files) :
               /\ sbom_files[i].valid => WrittenAs(sbom_files[i]) \in DOMAIN sbom_written
               /\ (~sbom_files[i].valid /\ WrittenAs(sbom_files[i]) \in DOMAIN sbom_written) =>
                      /\ sbom_written[WrittenAs(sbom_files[i])].deps = EmptyDict
                      /\ sbom_written[WrittenAs(sbom_files[i])].javaVersion = "unknown"

\* A document was extracted in which discovery found no runtime version.
NothingExplicit ==
    /\ sbom_i > 0 /\ LastSbom.valid
    /\ sbom_result.explicit = None

-----------------------------------------------------------------------------
(* Properties of the classification and of the inference                   *)

\* C11: classifying a (group, artifact) pair against the catalog returns the
\* family of the first entry, in table order, whose group equals the group and
\* whose selector matches the artifact (no selector: any artifact; a plain
\* string: equality; a pattern starting with "^": a match anchored at the
\* start), and no family if there is no such entry.  Group
\* org.springframework.boot gives spring-boot whatever the artifact;
\* org.springframework:spring-core gives spring-framework and
\* org.springframework:spring-other gives no family.
C11_FirstMatchInTableOrder ==
    (pc_call = "returned" /\ call.fn = "classify") =>
        LET mappings == Catalog(call.extractor)
            M(i) == EntryMatches(mappings[i], call.group, call.artifact)
            N == 1..Len(mappings)
        IN  /\ (call_ret = None) <=> (\A i \in N : ~M(i))
            /\ call_ret # None =>
                 \E i \in N : /\ M(i)
                              /\ \A j \in 1..(i - 1) : ~M(j)
                              /\ call_ret = mappings[i].name
            /\ call.group = "org.springframework.boot" => call_ret = "spring-boot"
            /\ (call.group = "org.springframework" /\ call.artifact = "spring-core")
                 => call_ret = "spring-framework"
            /\ (call.group = "org.springframework" /\ call.artifact = "spring-other")
                 => call_ret = None
            /\ (call.group = "org.springframework.security")
                 => (call_ret = "spring-security"
                       <=> StartsWith(call.artifact, "spring-security-"))

\* A pattern selector has classified an artifact.
C11_Witness ==
    /\ pc_call = "returned" /\ call.fn = "classify"
    /\ call.group = "org.springframework" /\ call.artifact = "spring-core"
    /\ call_ret = "spring-framework"

\* The keys the software-development-kit rule reads.
SdkKeys == {"azure-sdk-for-java", "azure-core-http-netty"}

Only(deps, K) == [k \in DOMAIN deps \cap K |-> deps[k]]

\* The rule of a family fires: the family is in the dict and its version has
\* one of the prefixes of the rule, or passes the numeric threshold.
BootFires(deps) ==
    /\ "spring-boot" \in DOMAIN deps
    /\ StartsWith(deps["spring-boot"], "3.") \/ StartsWith(deps["spring-boot"], "2.")

FrameworkFires(deps) ==
    /\ "spring-framework" \in DOMAIN deps
    /\ StartsWith(deps["spring-framework"], "6.") \/ StartsWith(deps["spring-framework"], "5.")

SdkFires(deps) ==
    /\ DOMAIN deps \cap SdkKeys # {}
    /\ LET v == IF "azure-sdk-for-java" \in DOMAIN deps THEN deps["azure-sdk-for-java"]
                ELSE deps["azure-core-http-netty"]
           parts == Split(v, ".")
       IN  /\ Len(parts) > 1
           /\ IsDigit(parts[1]) /\ IntOf(parts[1]) >= 1
           /\ IsDigit(parts[2]) /\ IntOf(parts[2]) >= 40

ReactorFires(deps) ==
    /\ "reactor" \in DOMAIN deps
    /\ StartsWith(deps["reactor"], "3.")

\* C12: in both extractors infer_java_version_from_deps consults the families
\* in the order spring-boot, spring-framework, the software-development-kit
\* family (numeric minor-version threshold), reactor, and returns the level of
\* the first family whose rule fires: the level it returns for that family
\* alone.  A family that is present with a version none of its prefixes takes
\* falls through to the next family.
C12_PriorityOrder ==
    (pc_call = "returned" /\ call.fn = "infer") =>
        LET Alone(K) == Infer(call.extractor, Only(call.deps, K))
            first == IF BootFires(call.deps) THEN {"spring-boot"}
                     ELSE IF FrameworkFires(call.deps) THEN {"spring-framework"}
                     ELSE IF SdkFires(call.deps) THEN SdkKeys
                     ELSE IF ReactorFires(call.deps) THEN {"reactor"}
                     ELSE {}
        IN  first # {} => (call_ret # None /\ call_ret = Alone(first))

-----------------------------------------------------------------------------
(* Properties of the written records                                       *)

\* C13: the javaVersion field of every written record is either "unknown" or
\* a string of decimal digits only, whatever form the level had in the input.
C13_JavaVersionIsDigits ==
    \A f \in DOMAIN pom_written :
        \/ pom_written[f].javaVersion = "unknown"
        \/ IsDigit(pom_written[f].javaVersion)

\* The inputs of the batch that fail to parse.
FailedInputs == {i \in 1..Len(sbom_files) : ~sbom_files[i].valid}

\* C14: a batch over N inputs of which M fail to parse writes exactly N - M
\* records: no record for a failed input, and the records of the inputs that
\* parse are there when the run ends, whatever failed after them.
C14_FailedInputsWriteNothing ==
    sbom_status \in {"done", "raised"} =>
        /\ Cardinality(DOMAIN sbom_written) = Len(sbom_files) - Cardinality(FailedInputs)
        /\ \A i \in 1..Len(sbom_files) :
               WrittenAs(sbom_files[i]) \in DOMAIN sbom_written <=> sbom_files[i].valid

\* What the extractor of the other format returns for the document of a file.
OtherFormat(file) ==
    IF IsJson(file) THEN extract_deps_from_xml_sbom(file, include_transitive)
    ELSE extract_deps_from_json_sbom(file.doc, include_transitive)

\* C15: the JSON and the XML extractor return the same runtime version, the
\* same map from family to version and the same map from family to transitive
\* set for documents that describe the same content.
C15_FormatsAgree ==
    (sbom_i > 0 /\ LastSbom.valid) =>
        /\ sbom_result.java_version = OtherFormat(LastSbom).java_version
        /\ sbom_result.matched_deps = OtherFormat(LastSbom).matched_deps
        /\ sbom_result.transitive_deps = OtherFormat(LastSbom).transitive_deps

\* The component is skipped by the filters on type and scope.
Filtered(c) == c.type # "library" \/ c.scope \in {"excluded", "optional"}

\* The components of a list that the filters keep, in their order.
Kept(components) == SelectSeq(components, LAMBDA c : ~Filtered(c))

\* What the loop over the components returns when it runs over the given
\* components of the last file, with the reference map and the adjacency map
\* of the whole document.
LoopOver(components) ==
    LET by_ref == ComponentsByRef(LastSbom.doc.components, EmptyDict)
    IN  IF IsJson(LastSbom)
        THEN JsonComponents(components, NoMatches, by_ref, TreeOf(LastSbom), include_transitive)
        ELSE XmlComponents(components, NoMatches, by_ref, TreeOf(LastSbom), include_transitive)

C17_DependencyFilter ==
    \A i \in 1..Len(modules) : \A f \in Families :
        LET sec == xml_sections[i]
            Hit(dep) == /\ dep.groupId # None /\ dep.version # None
                        /\ dep.scope = None \/ dep.scope = "compile"
                        /\ f = Classify(pom_dep_mappings, Strip(dep.groupId),
                                        IF dep.artifactId = None THEN "" ELSE Strip(dep.artifactId))
            hits == IF sec.wellformed
                    THEN {k \in 1..Len(sec.dependencies) : Hit(sec.dependencies[k])} ELSE {}
        IN  /\ f \in DOMAIN modules[i].deps <=> hits # {}
            /\ f \in DOMAIN modules[i].deps =>
                   \E k \in hits : modules[i].deps[f] = Strip(sec.dependencies[k].version)

\* A section with a dependency of a tracked family in scope test and one
\* without artifact identifier was extracted: only the second one counts.
C17_Witness ==
    /\ pom_i > 0 /\ Len(modules) = 1
    /\ \E k \in 1..Len(xml_sections[1].dependencies) :
           /\ xml_sections[1].dependencies[k].scope = "test"
           /\ xml_sections[1].dependencies[k].artifactId = "spring-core"
    /\ \E k \in 1..Len(xml_sections[1].dependencies) :
           xml_sections[1].dependencies[k].artifactId = None
    /\ modules[1].deps = Put(EmptyDict, "spring-boot", "2.6")

\* Discovery finds a runtime-version token in some section of the last file.
TokenFound ==
    \E i \in 1..Len(xml_sections) :
        xml_sections[i].wellformed /\ Truthy(DiscoverJavaVersion(xml_sections[i]))

\* C18: for a build-descriptor input in which no section yields a token, the
\* merged runtime version is the one inferred from the merged dependencies,
\* else the supplied default, else none; and the written javaVersion is
\* "unknown" exactly when no token was found, the inference yields none and no
\* default was supplied.
C18_UnknownOnlyWithoutSources ==
    pom_i > 0 =>
        LET inferred == pom_infer_java_version_from_deps(all_deps)
            default == IF Truthy(fallback_java_version) THEN fallback_java_version ELSE None
        IN  /\ ~TokenFound =>
                   pom_java_version = IF inferred # None THEN inferred ELSE default
            /\ pom_record.javaVersion = "unknown" <=>
                   (~TokenFound /\ inferred = None /\ default = None)

\* The positions of the dots of a version.
Dots(v) == {i \in 1..Len(v) : Char(v, i) = "."}

\* The version with everything after its second dot replaced by "x"; the
\* version itself when it has fewer than two dots.
FirstTwoThenX(v) ==
    IF Cardinality(Dots(v)) < 2 THEN v
    ELSE LET second == CHOOSE i \in Dots(v) : Cardinality({j \in Dots(v) : j < i}) = 1
         IN  SubSeq(v, 1, second) \o "x"

\* C19: version_to_x maps a version of at least three dot-separated segments
\* to "{first}.{second}.x" and returns one of fewer segments unchanged
\* ("5.3.21" gives "5.3.x", "5.3" gives "5.3"); applying it twice gives what
\* applying it once gives; and every value of the deps map of a written record
\* is the version_to_x image of the merged version of its family.
C19_VersionToX ==
    /\ version_to_x("5.3.21") = "5.3.x"
    /\ version_to_x("5.3") = "5.3"
    /\ \A v \in SampleVersions :
           /\ version_to_x(v) = FirstTwoThenX(v)
           /\ version_to_x(version_to_x(v)) = version_to_x(v)
    /\ pom_i > 0 =>
           /\ DOMAIN pom_record.deps = DOMAIN all_deps
           /\ pom_record.version = FirstTwoThenX(pom_files[pom_i].tag)
           /\ \A k \in DOMAIN all_deps :
                  /\ pom_record.deps[k] = FirstTwoThenX(all_deps[k])
                  /\ version_to_x(pom_record.deps[k]) = pom_record.deps[k]

\* A record was written for a merged version of three segments.
C19_Witness ==
    /\ pom_i > 0
    /\ "spring-boot" \in DOMAIN all_deps
    /\ all_deps["spring-boot"] = "3.0.1"
    /\ pom_record.deps["spring-boot"] = "3.0.x"

\* C20: extraction is deterministic: running the extractor twice on the same
\* unchanged input writes the same records: the same version, javaVersion and
\* deps map and, for each family, the same transitiveDeps list in the same
\* order.
C20_SecondRunWritesTheSame ==
    (sbom_status = "done" /\ sbom_previous # EmptyDict) => sbom_written = sbom_previous

-----------------------------------------------------------------------------
(* Properties of the runtime-version discovery                             *)

\* The element is there with text that is more than whitespace.
HasText(dict, name) == name \in DOMAIN dict /\ dict[name] # None /\ Strip(dict[name]) # ""

\* The configurations of the compiler plugins of a section that hold release,
\* target or source with text, in document order.
CompilerConfigurations(seg) ==
    LET Holds(plugin) ==
            /\ plugin.artifactId = "maven-compiler-plugin"
            /\ \E t \in {"release", "target", "source"} : HasText(plugin.configuration, t)
        hits == SelectSeq(seg.plugins, Holds)
    IN  [k \in 1..Len(hits) |-> hits[k].configuration]

\* The runtime version of a section by the order of the sources: the
\* properties by name, the compiler plugin by tag, the inference from the
\* section's matched dependencies, the supplied fallback.
FirstSource(seg, deps, fallback) ==
    LET p == seg.properties
        c == CompilerConfigurations(seg)
    IN  IF HasText(p, "java.version") THEN Strip(p["java.version"])
        ELSE IF HasText(p, "maven.compiler.target") THEN Strip(p["maven.compiler.target"])
        ELSE IF HasText(p, "maven.compiler.source") THEN Strip(p["maven.compiler.source"])
        ELSE IF HasText(p, "maven.compiler.release") THEN Strip(p["maven.compiler.release"])
        ELSE IF HasText(p, "project.build.sourceLevel") THEN Strip(p["project.build.sourceLevel"])
        ELSE IF c # <<>> /\ HasText(c[1], "release") THEN Strip(c[1]["release"])
        ELSE IF c # <<>> /\ HasText(c[1], "target") THEN Strip(c[1]["target"])
        ELSE IF c # <<>> THEN Strip(c[1]["source"])
        ELSE IF pom_infer_java_version_from_deps(deps) # None
             THEN pom_infer_java_version_from_deps(deps)
        ELSE IF fallback # None /\ fallback # "" THEN fallback
        ELSE None

\* C21: within one section of a build descriptor the runtime version is taken
\* from the first source that yields a value: a property (java.version,
\* maven.compiler.target, maven.compiler.source, maven.compiler.release,
\* project.build.sourceLevel, in this order), then the configuration of the
\* maven-compiler-plugin (release, then target, then source), then the
\* inference from the section's matched dependencies, then the supplied
\* fallback; a source of lower priority never replaces the value of a higher
\* one.
C21_DiscoveryOrder ==
    \A i \in 1..Len(modules) :
        xml_sections[i].wellformed =>
            modules[i].java_version =
                FirstSource(xml_sections[i], modules[i].deps, fallback_java_version)

-----------------------------------------------------------------------------
(* Properties of the SBOM runtime-version discovery                        *)

\* The document without the properties whose value is the string "null".
WithoutNull(doc) ==
    LET NotNull(prop) == prop.value # "null"
    IN  [doc EXCEPT
            !.metadata_properties = SelectSeq(doc.metadata_properties, NotNull),
            !.tools = [k \in 1..Len(doc.tools) |->
                          [doc.tools[k] EXCEPT !.properties = SelectSeq(doc.tools[k].properties, NotNull)]]]

\* Runtime-version discovery of the format of the file, on a document.
DiscoverAs(file, doc) == IF IsJson(file) THEN JsonDiscover(doc) ELSE XmlDiscover(doc)

\* C22: in the SBOM runtime-version discovery a property whose value is the
\* string "null" is treated as absent wherever a property is read
\* (metadata.properties and the properties of metadata.tools, JSON and XML):
\* "null" is never the runtime version, and discovery finds what it finds in
\* the document without these properties.
C22_NullIsAbsent ==
    (sbom_i > 0 /\ LastSbom.valid) =>
        /\ sbom_result.explicit # "null"
        /\ sbom_result.explicit = DiscoverAs(LastSbom, WithoutNull(LastSbom.doc))

\* C23: the SBOM extractor recognises in metadata.properties exactly the
\* property names the build-descriptor extractor recognises (java.version,
\* maven.compiler.target, maven.compiler.source, maven.compiler.release,
\* project.build.sourceLevel): the first property with one of these names and
\* a usable value is the runtime version, and a property with another name is
\* not taken, so that without such a property the runtime version is what the
\* tools give.
C23_SamePropertyNames ==
    (sbom_i > 0 /\ LastSbom.valid) =>
        LET props == LastSbom.doc.metadata_properties
            names == {java_props[k] : k \in 1..Len(java_props)}
            I == {i \in 1..Len(props) :
                      /\ props[i].name \in names
                      /\ props[i].value \notin {None, "", "null"}}
        IN  IF I # {}
            THEN sbom_result.explicit = props[CHOOSE i \in I : \A j \in I : i <= j].value
            ELSE sbom_result.explicit =
                     IF IsJson(LastSbom) THEN JsonToolsVersion(LastSbom.doc.tools, None)
                     ELSE XmlToolsVersion(LastSbom.doc.tools, None)

-----------------------------------------------------------------------------
(* Properties of the catalogs                                              *)

\* The entries of the catalog that match the pair of a classification call.
MatchingEntries(mappings, group, artifact) ==
    {i \in 1..Len(mappings) : EntryMatches(mappings[i], group, artifact)}

\* C24: the selectors of the catalog do not overlap: for every (group,
\* artifact) pair at most one entry matches, so the family the classification
\* returns is also that of the last matching entry, whatever the order of the
\* table; this holds for the catalog of each extractor.
C24_SelectorsDoNotOverlap ==
    (pc_call = "returned" /\ call.fn = "classify") =>
        LET mappings == Catalog(call.extractor)
            I == MatchingEntries(mappings, call.group, call.artifact)
        IN  /\ Cardinality(I) <= 1
            /\ I # {} => call_ret = mappings[CHOOSE i \in I : \A j \in I : j <= i].name

\* An artifact of a group with several entries, one of them a pattern, was
\* classified.
C24_Witness ==
    /\ pc_call = "returned" /\ call.fn = "classify"
    /\ call.group = "org.springframework.cloud"
    /\ call.artifact = "spring-cloud-function-context"
    /\ call_ret = "spring-cloud-function"

\* C28: the two extractors classify every (group, artifact) pair to the same
\* family, or both to none: the two catalogs define the same classification.
C28_SameClassification ==
    (pc_call = "returned" /\ call.fn = "classify") =>
        /\ call_ret = Classify(pom_dep_mappings, call.group, call.artifact)
        /\ call_ret = Classify(sbom_dep_mappings, call.group, call.artifact)

-----------------------------------------------------------------------------
(* Properties of the XML adjacency map                                     *)

\* C26: in the XML extractor the adjacency entry of every ref that has its
\* own declaration is the list of child refs declared inside it, whatever the
\* order of the declarations; a ref that occurs as a nested child of a later
\* declaration keeps its own children.
C26_DeclaredChildrenKept ==
    (sbom_i > 0 /\ LastSbom.valid /\ ~IsJson(LastSbom)) =>
        \A k \in 1..Len(LastSbom.doc.dependencies) :
            LET d == LastSbom.doc.dependencies[k]
            IN  d.ref # None =>
                    /\ d.ref \in DOMAIN TreeOf(LastSbom)
                    /\ TreeOf(LastSbom)[d.ref] = d.dependsOn

-----------------------------------------------------------------------------
(* Properties of the mapping updaters                                      *)

\* The run has ended, by a return or by an exception.
Terminated == pc_upd \in {"done", "failed"}

\* The original ref was recorded and the loop entered.
LoopEntered == original_ref # None

VersionStr(i) ==
    get_major_minor_string(missing_versions[i].version[1], missing_versions[i].version[2])

\* How the processing of the i-th missing version fails: by a command, by a
\* missing record file, or not at all ("none").
Failure(i) == repo.world[missing_versions[i].version].failure

TagsOf(n) == [i \in 1..n |-> missing_versions[i].tag]

\* C25: the missing versions are processed in ascending (major, minor) order.
\* With skip-on-error set, every version whose processing fails by a command
\* or by a missing record file is left out of the mapping, every other missing
\* version is processed and is in the mapping, and the mapping file is written
\* at the end.  Without it the first such failure ends the run with the
\* mapping file as it was.
C25_SkipOrAbort ==
    (Terminated /\ LoopEntered) =>
        LET n == Len(missing_versions)
            failed == {i \in 1..n : Failure(i) # "none"}
        IN  /\ \A i \in 1..n : \A j \in 1..n :
                   i < j => PairLess(missing_versions[i].version, missing_versions[j].version)
            /\ IF args.skip_on_error
               THEN /\ pc_upd = "done"
                    /\ checkouts = TagsOf(n) \o <<original_ref>>
                    /\ \A i \in 1..n :
                           HasKey(mapping_file.rewrite, VersionStr(i)) <=> i \notin failed
                    /\ mapping_file = mapping_data
               ELSE failed # {} =>
                    LET f == CHOOSE i \in failed : \A j \in failed : i <= j
                    IN  /\ pc_upd = "failed"
                        /\ mapping_file = repo.mapping
                        /\ Len(checkouts) <= f + 1

\* C27: the build-descriptor updater accepts every record the extractor can
\* write: no run ends by an exception while a record was read and converted,
\* and with skip-on-error set no run ends by an exception at all.
C27_RecordsAccepted ==
    (args.updater = "pom" /\ pc_upd \in {"raised", "failed"}) =>
        /\ Failure(upd_i) # "none"
        /\ ~args.skip_on_error

\* C29: a run that recorded the original ref and entered the loop ends with
\* a checkout of the ref the repository was at, issued after the checkouts of
\* the tags, whether the run completes or an exception ends it.
C29_OriginalRefRestored ==
    (Terminated /\ LoopEntered) =>
        LET n == Len(checkouts)
        IN  /\ n >= 2
            /\ checkouts[n] = repo.head.at
            /\ \A i \in 1..(n - 1) : \E t \in Range(repo.tags) : checkouts[i] = t.tag

\* A run in detached HEAD state was ended by the failure of its second
\* version and restored the commit.
C29_Witness ==
    /\ pc_upd = "failed"
    /\ repo.head.abbrev_ref = "HEAD"
    /\ Len(checkouts) = 3
    /\ checkouts[3] = "4f2a9c1"

\* The mapping file was written by the run.
Written ==
    \/ pc_upd = "restore"
    \/ pc_upd = "done" /\ repo.tags # <<>> /\ (LoopEntered \/ missing_versions = <<>>)

\* The keys ascend by (major, minor), every item but the last links to the
\* item after it, the last has no link.
Chained(rewrite_dict) ==
    \A i \in 1..Len(rewrite_dict) :
        IF i < Len(rewrite_dict)
        THEN /\ PairLess(version_key(rewrite_dict[i].key), version_key(rewrite_dict[i + 1].key))
             /\ rewrite_dict[i].value.nextRewrite = Link(rewrite_dict[i + 1].key)
        ELSE rewrite_dict[i].value.nextRewrite = NullLink

\* update_next_rewrite_links gives every item the link to the item with the
\* next higher (major, minor), and none to the item with the highest.
LinkedInOrder(rewrite_dict) ==
    LET linked == update_next_rewrite_links(rewrite_dict)
        Higher(k) == {j \in Range(Keys(rewrite_dict)) : PairLess(version_key(k), version_key(j))}
    IN  \A i \in 1..Len(linked) :
            /\ linked[i].key = rewrite_dict[i].key
            /\ IF Higher(linked[i].key) = {}
               THEN linked[i].value.nextRewrite = NullLink
               ELSE \E j \in Higher(linked[i].key) :
                       /\ \A h \in Higher(linked[i].key) :
                              ~PairLess(version_key(h), version_key(j))
                       /\ linked[i].value.nextRewrite = Link(j)

\* C30: update_next_rewrite_links, on the mapping of the file and on the
\* mapping in memory in whatever order it is, links every version to the one
\* that follows it by (major, minor), with project null, and sets the link of
\* the last to null; the rewrite of a mapping file written by a run has
\* its keys in that ascending order and its links along it.
C30_LinksFollowOrder ==
    /\ LinkedInOrder(mapping_file.rewrite)
    /\ pc_upd # "start" => LinkedInOrder(mapping_data.rewrite)
    /\ Written => Chained(mapping_file.rewrite)

\* A mapping file that had its two versions out of order was written with a
\* third version added.
C30_Witness ==
    /\ Written
    /\ Len(repo.mapping.rewrite) = 2
    /\ repo.mapping.rewrite[1].key = "1.10.x"
    /\ Keys(mapping_file.rewrite) = <<"1.2.x", "1.10.x", "2.0.x">>

====
